---- MODULE Spec2Model ----
(***************************************************************************)
(* Race simulation core: the RunningHorse entity, the Race aggregate and   *)
(* its pending domain-event buffer, and the race-loop driver               *)
(* (StartRaceCommand) with its state store, Timer and EventBus.            *)
(*                                                                         *)
(* Abstractions: meters and conditions are scaled down (a race is MaxLen   *)
(* meters at most, a condition MaxCond at most); a running horse is named  *)
(* by its 1-based lineup index (the code holds object references and       *)
(* unique UUIDs); display names, colors, event ids and timestamps are      *)
(* left out.  Math.random() is a draw r / RandDen with r in 0..RandDen-1.  *)
(***************************************************************************)
EXTENDS Integers, Sequences, FiniteSets, TLC

\* ------------------------------------------------------------------ bounds
MaxHorses == 2
MaxCond == 2
MaxLen == 3

\* Condition.create accepts the integers 1..100 (scaled: 1..MaxCond).
Conditions == 1..MaxCond

\* VALID_DISTANCES = [1200, ..., 2200] (scaled: the two longest lengths).
VALID_DISTANCES == (MaxLen - 1)..MaxLen

\* Math.random() returns r / RandDen, 0 <= r < RandDen; RandDen >= MaxCond
\* makes every movement 1..condition possible.
RandDen == MaxCond
RandomDraws == 0..(RandDen - 1)

\* --------------------------------------------------------------- variables
VARIABLES
    race,       \* the Race aggregate (record, see RaceNew)
    emitted,    \* history: every event ever passed to addDomainEvent, in order
    lastCall,   \* history: the last operation called on the race and its result
    okTurns,    \* history: number of turn() calls that returned Ok
    horse,      \* a stand-alone RunningHorse (record, see RunningHorseCreate)
    lastRun,    \* history: the last run() call on the stand-alone horse
    mockRandom, \* the value a mocked Math.random() returns, or NoMock
    world,      \* the race-loop driver with its store, timer and publisher
    bus         \* a stand-alone EventBus (record, see EventBusNew)

vars ==
    <<race, emitted, lastCall, okTurns, horse, lastRun, mockRandom, world, bus>>
raceVars == <<race, emitted, lastCall, okTurns>>

\* ------------------------------------------------------------ Result type
Ok(v) == [ok |-> TRUE, value |-> v, error |-> "none"]
Err(e) == [ok |-> FALSE, value |-> 0, error |-> e]

\* ----------------------------------------------------------- RunningHorse
\* RunningHorse.create: position 0, not finished.
RunningHorseCreate(condition) ==
    [condition |-> condition, position |-> 0, isFinished |-> FALSE]

\* RunningHorse.reconstitute: restores position and isFinished unchecked.
RunningHorseReconstitute(condition, position, isFinished) ==
    [condition |-> condition, position |-> position, isFinished |-> isFinished]

\* Variant of Movement: the "+ 1" is missing, so a draw of 0 moves nothing.
MovementFloorOnly(r, condition) == (r * condition) \div RandDen

\* Math.floor(Math.random() * condition) + 1, with Math.random() = r / RandDen.
Movement(r, condition) == ((r * condition) \div RandDen) + 1

\* Variant of HorseRun: the position is not capped at the race length.
HorseRunNoClamp(h, raceLength, r) ==
    IF h.isFinished
    THEN [horse |-> h, result |-> Err("HorseAlreadyFinishedError")]
    ELSE LET movement == Movement(r, h.condition)
             newPosition == h.position + movement
         IN  [horse |-> [h EXCEPT !.position = newPosition,
                                   !.isFinished = (newPosition >= raceLength)],
              result |-> Ok(movement)]

\* Variant of HorseRun: the "if (this._isFinished)" early return is missing.
HorseRunNoGuard(h, raceLength, r) ==
    LET movement == Movement(r, h.condition)
        newPosition == h.position + movement
    IN  IF newPosition >= raceLength
        THEN [horse |-> [h EXCEPT !.position = raceLength,
                                  !.isFinished = TRUE],
              result |-> Ok(movement)]
        ELSE [horse |-> [h EXCEPT !.position = newPosition],
              result |-> Ok(movement)]

\* Variant of HorseRun: Ok carries the distance actually covered, which is
\* less than the movement when the position is capped.
HorseRunReturnsCovered(h, raceLength, r) ==
    IF h.isFinished
    THEN [horse |-> h, result |-> Err("HorseAlreadyFinishedError")]
    ELSE LET movement == Movement(r, h.condition)
             newPosition == h.position + movement
         IN  IF newPosition >= raceLength
             THEN [horse |-> [h EXCEPT !.position = raceLength,
                                       !.isFinished = TRUE],
                   result |-> Ok(raceLength - h.position)]
             ELSE [horse |-> [h EXCEPT !.position = newPosition],
                   result |-> Ok(movement)]

\* Variant of HorseRun: the finish test is "newPosition > raceLength".
HorseRunStrictFinish(h, raceLength, r) ==
    IF h.isFinished
    THEN [horse |-> h, result |-> Err("HorseAlreadyFinishedError")]
    ELSE LET movement == Movement(r, h.condition)
             newPosition == h.position + movement
         IN  IF newPosition > raceLength
             THEN [horse |-> [h EXCEPT !.position = raceLength,
                                       !.isFinished = TRUE],
                   result |-> Ok(movement)]
             ELSE [horse |-> [h EXCEPT !.position = newPosition],
                   result |-> Ok(movement)]

\* RunningHorse.run(raceLength): the horse after the call and the Result.
HorseRun(h, raceLength, r) ==
    IF h.isFinished
    THEN [horse |-> h, result |-> Err("HorseAlreadyFinishedError")]
    ELSE LET movement == Movement(r, h.condition)
             newPosition == h.position + movement
         IN  IF newPosition >= raceLength
             THEN [horse |-> [h EXCEPT !.position = raceLength,
                                       !.isFinished = TRUE],
                   result |-> Ok(movement)]
             ELSE [horse |-> [h EXCEPT !.position = newPosition],
                   result |-> Ok(movement)]

\* ----------------------------------------------------------------- events
RaceStarted(horseCount, distance) ==
    [eventType |-> "RaceStarted", horseCount |-> horseCount,
     distance |-> distance]

TurnCompleted(turnNumber, positions) ==
    [eventType |-> "TurnCompleted", turnNumber |-> turnNumber,
     positions |-> positions]

HorseFinished(horseId, finishPosition, place) ==
    [eventType |-> "HorseFinished", horseId |-> horseId,
     finishPosition |-> finishPosition, place |-> place]

RaceFinished(results) ==
    [eventType |-> "RaceFinished", results |-> results]

\* ------------------------------------------------------------------- Race
\* new Race(id, horses, distance): field initialisers of Race and
\* AggregateRoot.
RaceNew(horses, distance) ==
    [horses |-> horses, distance |-> distance, results |-> <<>>,
     isStarted |-> FALSE, turnCount |-> 0, domainEvents |-> <<>>]

\* Variant of RaceCreate: the "horses.length === 0" check is missing.
RaceCreateNoEmptyCheck(conditions, distance) ==
    Ok(RaceNew([i \in 1..Len(conditions) |->
                   RunningHorseCreate(conditions[i])], distance))

\* Race.create(horses, distance): conditions is the input lineup.
RaceCreate(conditions, distance) ==
    IF Len(conditions) = 0
    THEN Err("NoHorsesError")
    ELSE Ok(RaceNew([i \in 1..Len(conditions) |->
                        RunningHorseCreate(conditions[i])], distance))

\* Race.reconstitute(id, horses, distance, results, isStarted, turnCount).
RaceReconstitute(horses, distance, results, isStarted, turnCount) ==
    [RaceNew(horses, distance) EXCEPT !.results = results,
                                      !.isStarted = isStarted,
                                      !.turnCount = turnCount]

\* get isFinished
IsFinished(rc) == Len(rc.results) = Len(rc.horses)

\* get raceLength
RaceLength(rc) == rc.distance

\* AggregateRoot.addDomainEvent
AddDomainEvent(rc, event) ==
    [rc EXCEPT !.domainEvents = Append(rc.domainEvents, event)]

\* Variant of ClearDomainEvents: the buffer is copied and not emptied.
ClearDomainEventsKeeps(rc) ==
    [race |-> rc, events |-> rc.domainEvents]

\* AggregateRoot.clearDomainEvents: the emptied aggregate and the copy.
ClearDomainEvents(rc) ==
    [race |-> [rc EXCEPT !.domainEvents = <<>>], events |-> rc.domainEvents]

\* Variant of RaceStart: the "if (!this._isStarted)" guard is missing.
RaceStartAlwaysEmits(rc) ==
    IF IsFinished(rc)
    THEN [race |-> rc, result |-> Err("RaceAlreadyFinishedError")]
    ELSE [race |-> AddDomainEvent([rc EXCEPT !.isStarted = TRUE],
                       RaceStarted(Len(rc.horses), rc.distance)),
          result |-> Ok(0)]

\* Variant of RaceStart: the finished check is missing.
RaceStartNoFinishedCheck(rc) ==
    IF ~rc.isStarted
    THEN [race |-> AddDomainEvent([rc EXCEPT !.isStarted = TRUE],
                       RaceStarted(Len(rc.horses), rc.distance)),
          result |-> Ok(0)]
    ELSE [race |-> rc, result |-> Ok(0)]

\* Race.start()
RaceStart(rc) ==
    IF IsFinished(rc)
    THEN [race |-> rc, result |-> Err("RaceAlreadyFinishedError")]
    ELSE IF ~rc.isStarted
         THEN [race |-> AddDomainEvent([rc EXCEPT !.isStarted = TRUE],
                            RaceStarted(Len(rc.horses), rc.distance)),
               result |-> Ok(0)]
         ELSE [race |-> rc, result |-> Ok(0)]

\* Variant of MoveLoop: the "if (!horse.isFinished)" skip is missing and a
\* horse counts as newly finished whenever it is finished after its run().
RECURSIVE MoveLoopNoSkip(_, _, _, _, _)
MoveLoopNoSkip(horses, raceLength, draws, i, newlyFinished) ==
    IF i > Len(horses)
    THEN [horses |-> horses, newlyFinished |-> newlyFinished]
    ELSE LET ran == HorseRun(horses[i], raceLength, draws[i]).horse
         IN  MoveLoopNoSkip([horses EXCEPT ![i] = ran], raceLength, draws,
                            i + 1,
                            IF ran.isFinished
                            THEN Append(newlyFinished, i)
                            ELSE newlyFinished)

\* Race.turn(), "Move all unfinished horses": the loop over this._horses.
\* draws[i] is the Math.random() value horse i's run() receives.
RECURSIVE MoveLoop(_, _, _, _, _)
MoveLoop(horses, raceLength, draws, i, newlyFinished) ==
    IF i > Len(horses)
    THEN [horses |-> horses, newlyFinished |-> newlyFinished]
    ELSE IF ~horses[i].isFinished
         THEN LET wasFinishedBefore == horses[i].isFinished
                  ran == HorseRun(horses[i], raceLength, draws[i]).horse
              IN  MoveLoop([horses EXCEPT ![i] = ran], raceLength, draws,
                           i + 1,
                           IF ran.isFinished /\ ~wasFinishedBefore
                           THEN Append(newlyFinished, i)
                           ELSE newlyFinished)
         ELSE MoveLoop(horses, raceLength, draws, i + 1, newlyFinished)

\* Variant of CompareNewlyFinished: the operands are swapped.
CompareNewlyFinishedReversed(a, b) == b - a

\* The comparator of newlyFinished.sort: indexOf(a) - indexOf(b); a horse is
\* its lineup index, so indexOf(a) is a.
CompareNewlyFinished(a, b) == a - b

\* Array.prototype.sort is stable: x goes after every element that does not
\* compare greater than it.
RECURSIVE SortInsert(_, _)
SortInsert(x, s) ==
    IF s = <<>> THEN <<x>>
    ELSE IF CompareNewlyFinished(Head(s), x) <= 0
         THEN <<Head(s)>> \o SortInsert(x, Tail(s))
         ELSE <<x>> \o s

RECURSIVE SortNewlyFinished(_)
SortNewlyFinished(s) ==
    IF s = <<>> THEN <<>>
    ELSE SortInsert(s[Len(s)], SortNewlyFinished(SubSeq(s, 1, Len(s) - 1)))

\* Race.turn(), "Add to results and emit events": the loop over
\* newlyFinished.
RECURSIVE RecordLoop(_, _, _)
RecordLoop(rc, newlyFinished, k) ==
    IF k > Len(newlyFinished)
    THEN rc
    ELSE LET h == newlyFinished[k]
             pushed == [rc EXCEPT !.results = Append(@, h)]
             place == Len(pushed.results)
         IN  RecordLoop(AddDomainEvent(pushed,
                            HorseFinished(h, pushed.horses[h].position, place)),
                        newlyFinished, k + 1)

\* Variant of Positions: horses that are already finished are left out.
PositionsUnfinishedOnly(rc) ==
    SelectSeq([i \in 1..Len(rc.horses) |->
                  [horseId |-> i, position |-> rc.horses[i].position,
                   isFinished |-> rc.horses[i].isFinished]],
              LAMBDA entry : ~entry.isFinished)

\* Race.turn(), the positions snapshot: this._horses.map(...).
Positions(rc) ==
    [i \in 1..Len(rc.horses) |->
        [horseId |-> i, position |-> rc.horses[i].position,
         isFinished |-> rc.horses[i].isFinished]]

\* Variant of RaceResults: place is the 0-based index.
RaceResultsZeroBased(rc) ==
    [k \in 1..Len(rc.results) |->
        [place |-> k - 1, horseId |-> rc.results[k],
         finishPosition |-> rc.horses[rc.results[k]].position]]

\* Race.turn(), raceResults: this._results.map((h, index) => ...).
RaceResults(rc) ==
    [k \in 1..Len(rc.results) |->
        [place |-> k, horseId |-> rc.results[k],
         finishPosition |-> rc.horses[rc.results[k]].position]]

\* Race.turn(), "Check if race is now finished".
EmitRaceFinished(rc) ==
    IF IsFinished(rc)
    THEN AddDomainEvent(rc, RaceFinished(RaceResults(rc)))
    ELSE rc

\* Race.turn(): this._turnCount++.
IncrementTurnCount(rc) == [rc EXCEPT !.turnCount = @ + 1]

\* Variant of TurnPrecondition: the not-started check is missing.
TurnPreconditionNoStartCheck(rc) ==
    IF IsFinished(rc) THEN "RaceAlreadyFinishedError" ELSE "none"

\* Variant of TurnPrecondition: the finished check comes first.
TurnPreconditionFinishedFirst(rc) ==
    IF IsFinished(rc) THEN "RaceAlreadyFinishedError"
    ELSE IF ~rc.isStarted THEN "RaceNotStartedError"
    ELSE "none"

\* Race.turn(), the two early returns, in the order the code makes them.
TurnPrecondition(rc) ==
    IF ~rc.isStarted THEN "RaceNotStartedError"
    ELSE IF IsFinished(rc) THEN "RaceAlreadyFinishedError"
    ELSE "none"

\* Variant of TurnBody: the TurnCompleted event is pushed before the
\* newly finished horses are recorded.
TurnBodySnapshotFirst(rc, draws) ==
    LET counted == IncrementTurnCount(rc)
        moved == MoveLoop(counted.horses, RaceLength(counted), draws, 1, <<>>)
        sorted == SortNewlyFinished(moved.newlyFinished)
        snapshot == AddDomainEvent([counted EXCEPT !.horses = moved.horses],
                        TurnCompleted(counted.turnCount,
                            Positions([counted EXCEPT
                                          !.horses = moved.horses])))
    IN  EmitRaceFinished(RecordLoop(snapshot, sorted, 1))

\* Race.turn(), from this._turnCount++ to the RaceFinished check.
TurnBody(rc, draws) ==
    LET counted == IncrementTurnCount(rc)
        moved == MoveLoop(counted.horses, RaceLength(counted), draws, 1, <<>>)
        sorted == SortNewlyFinished(moved.newlyFinished)
        recorded == RecordLoop([counted EXCEPT !.horses = moved.horses],
                               sorted, 1)
        snapshot == AddDomainEvent(recorded,
                        TurnCompleted(recorded.turnCount, Positions(recorded)))
    IN  EmitRaceFinished(snapshot)

\* Variant of RaceTurn: this._turnCount++ is made before the early returns.
RaceTurnCountsFirst(rc, draws) ==
    IF TurnPrecondition(rc) # "none"
    THEN [race |-> IncrementTurnCount(rc),
          result |-> Err(TurnPrecondition(rc))]
    ELSE [race |-> TurnBody(rc, draws), result |-> Ok(0)]

\* Race.turn()
RaceTurn(rc, draws) ==
    IF TurnPrecondition(rc) # "none"
    THEN [race |-> rc, result |-> Err(TurnPrecondition(rc))]
    ELSE [race |-> TurnBody(rc, draws), result |-> Ok(0)]

\* RunningHorse.getProgress: Math.min((position / raceLength) * 100, 100),
\* kept as the exact fraction num / den.
GetProgress(h, raceLength) ==
    [num |-> IF h.position * 100 <= raceLength * 100
             THEN h.position * 100 ELSE raceLength * 100,
     den |-> raceLength]

\* Variant of CompareLeaderboard: ascending positions.
CompareLeaderboardAscending(a, b) == a.position - b.position

\* The comparator of getLeaderboard: b.position - a.position.
CompareLeaderboard(a, b) == b.position - a.position

\* The stable sort of [...this._horses]: lineup index x goes after every
\* index whose horse does not compare greater than x's.
RECURSIVE LeaderboardInsert(_, _, _)
LeaderboardInsert(x, s, horses) ==
    IF s = <<>> THEN <<x>>
    ELSE IF CompareLeaderboard(horses[Head(s)], horses[x]) <= 0
         THEN <<Head(s)>> \o LeaderboardInsert(x, Tail(s), horses)
         ELSE <<x>> \o s

RECURSIVE LeaderboardSort(_, _)
LeaderboardSort(horses, n) ==
    IF n = 0 THEN <<>>
    ELSE LeaderboardInsert(n, LeaderboardSort(horses, n - 1), horses)

\* Race.getLeaderboard(): the returned array; a horse is its lineup index.
RaceGetLeaderboard(rc) ==
    LET sorted == LeaderboardSort(rc.horses, Len(rc.horses))
    IN  [index \in 1..Len(sorted) |->
            [horse |-> sorted[index], rank |-> index,
             progress |-> GetProgress(rc.horses[sorted[index]],
                                      RaceLength(rc))]]

\* ---------------------------------------------------------------- history
\* The events a call pushed: addDomainEvent only appends, so they are the
\* part of the buffer after the call that lies beyond the buffer before it.
Pushed(before, after) ==
    SubSeq(after.domainEvents, Len(before.domainEvents) + 1,
           Len(after.domainEvents))

NoCall ==
    [op |-> "none", ok |-> TRUE, error |-> "none", events |-> <<>>,
     draws |-> <<>>, lineup |-> <<>>, leaderboard |-> <<>>]
Call(op, result, events, draws) ==
    [op |-> op, ok |-> result.ok, error |-> result.error, events |-> events,
     draws |-> draws, lineup |-> <<>>, leaderboard |-> <<>>]

NoRun ==
    [op |-> "none", ok |-> TRUE, error |-> "none", value |-> 0,
     raceLength |-> 0, calls |-> 0, draw |-> 0, from |-> 0]

\* Math.random() is not mocked.
NoMock == "unmocked"

\* ------------------------------------------------- the race-loop driver
\* The world of a StartRaceCommand: the state store (races,
\* currentRaceIndex, tick, isRunning), the command's intervalId, the Timer
\* (timers, nextId), the EventBus with one subscribe-all handler, and the
\* suspended async calls (tasks).  A race of the store is named by its
\* 0-based index; delivered[i + 1] holds the events of race i the handler
\* has received, published[i + 1] the events of race i passed to
\* publishAll and emitted[i + 1] the events race i has added, in order.
\* races lists every race the store has held; the store's array is the
\* part of it after the first base races, so that a race replaced in the
\* store stays reachable for a suspended call that fetched it, and the
\* store's own index is currentRaceIndex - base.
MaxRaces == 1
MaxExecutes == 2
MaxTasks == 2
MaxPauses == 1

\* intervalId = null
NoTimer == 0

NoExecute == [ok |-> TRUE, error |-> "none", running |-> FALSE,
              hasRace |-> FALSE, unfinished |-> FALSE, index |-> 0]

\* History of pausing: how many pauses were made, what the current race's
\* turnCount, the tick and the index were at the last one, and whether an
\* execute() on the then unfinished race has followed it ("resumed") with
\* no timer firing after that call yet.
NoCycle == [phase |-> "none", pauses |-> 0, turnCount |-> 0, tick |-> 0,
            index |-> 0]

\* new StartRaceCommand(timer, store, bus) over a store holding races.
DriverNew(races) ==
    [races |-> races, base |-> 0, currentRaceIndex |-> 0, tick |-> 0,
     isRunning |-> FALSE, intervalId |-> NoTimer, timers |-> {},
     nextId |-> 1, tasks |-> <<>>,
     delivered |-> [i \in 1..Len(races) |-> <<>>],
     published |-> [i \in 1..Len(races) |-> <<>>],
     emitted |-> [i \in 1..Len(races) |-> <<>>],
     executes |-> 0, returns |-> 0, lastExecute |-> NoExecute,
     cycle |-> NoCycle]

\* No program, no driver activity.
IdleWorld == DriverNew(<<>>)

\* store.getCurrentRace(): races[currentRaceIndex], undefined past the end.
HasCurrentRace(w) == w.currentRaceIndex < Len(w.races)
GetCurrentRace(w) == w.races[w.currentRaceIndex + 1]

\* There is a current race and its isFinished is false.
HasUnfinishedRace(w) == HasCurrentRace(w) /\ ~IsFinished(GetCurrentRace(w))

\* store.advanceToNextRace()
AdvanceToNextRace(w) ==
    LET nextIndex == w.currentRaceIndex + 1
    IN  IF nextIndex < Len(w.races)
        THEN [world |-> [w EXCEPT !.currentRaceIndex = nextIndex],
              hasNextRace |-> TRUE]
        ELSE [world |-> w, hasNextRace |-> FALSE]

\* store.reset(): no races, index 0, tick 0, run-flag false.
StoreReset(w) ==
    [w EXCEPT !.base = Len(w.races), !.currentRaceIndex = Len(w.races),
              !.tick = 0, !.isRunning = FALSE]

\* StartRaceCommand.clearInterval() with Timer.clearInterval(id).
ClearInterval(w) ==
    IF w.intervalId # NoTimer
    THEN [w EXCEPT !.timers = @ \ {w.intervalId}, !.intervalId = NoTimer]
    ELSE w

\* Variant of Stop: stateStore.setIsRunning(false) is not called.
StopKeepsFlag(w) == ClearInterval(w)

\* Variant of Stop: timer.clearInterval(id) is not called.
StopKeepsTimer(w) == [w EXCEPT !.intervalId = NoTimer, !.isRunning = FALSE]

\* StartRaceCommand.stop()
Stop(w) == [ClearInterval(w) EXCEPT !.isRunning = FALSE]

\* PauseRaceCommand.execute(): startRaceCommand.stop(), then
\* stateStore.setIsRunning(false); returns ok.
Pause(w) == [Stop(w) EXCEPT !.isRunning = FALSE]

\* The pause history after a pause, after an execute() call and after a
\* timer firing.
CycleOnPause(w) ==
    [phase |-> "paused", pauses |-> w.cycle.pauses + 1,
     turnCount |-> IF HasCurrentRace(w) THEN GetCurrentRace(w).turnCount
                   ELSE 0,
     tick |-> w.tick, index |-> w.currentRaceIndex]
CycleOnExecute(w) ==
    IF w.cycle.phase = "paused"
    THEN [w.cycle EXCEPT !.phase = IF HasUnfinishedRace(w) THEN "resumed"
                                   ELSE "none"]
    ELSE w.cycle
CycleOnFiring(w) ==
    IF w.cycle.phase = "resumed"
    THEN [w.cycle EXCEPT !.phase = "none"]
    ELSE w.cycle

\* The promise of a caller's execute() settles with result; frame.top says
\* whether the frame belongs to such a call; frame.running, frame.hasRace,
\* frame.unfinished and frame.index are the run-flag, the presence of a
\* current race, whether it was unfinished, and the current index when the
\* call was made.
Settle(w, frame, result) ==
    IF frame.top
    THEN [w EXCEPT !.returns = @ + 1,
                   !.lastExecute = [ok |-> result.ok, error |-> result.error,
                                    running |-> frame.running,
                                    hasRace |-> frame.hasRace,
                                    unfinished |-> frame.unfinished,
                                    index |-> frame.index]]
    ELSE w

\* await eventPublisher.publishAll(events) up to its first suspension:
\* EventBus.publishAll calls publish(events[0]), which calls the handler
\* with it and awaits the handler's promise; the caller's frame waits with
\* the events not yet handed to the handler.
PublishAll(w, raceIndex, events, frame) ==
    IF events = <<>>
    THEN [w EXCEPT !.tasks = Append(@, [frame EXCEPT !.pending = <<>>])]
    ELSE [w EXCEPT !.published[raceIndex + 1] = @ \o events,
                   !.delivered[raceIndex + 1] = Append(@, Head(events)),
                   !.tasks = Append(@, [frame EXCEPT
                                           !.pending = Tail(events)])]

\* The frame of an execute() call made by a caller, and of a turn step
\* begun by a timer firing.
CallerFrame(w) ==
    [kind |-> "execute", race |-> w.currentRaceIndex, top |-> TRUE,
     inTurn |-> FALSE, running |-> w.isRunning,
     hasRace |-> HasCurrentRace(w), unfinished |-> HasUnfinishedRace(w),
     index |-> w.currentRaceIndex, pending |-> <<>>]
TurnFrame(w) ==
    [kind |-> "turn", race |-> w.currentRaceIndex, top |-> FALSE,
     inTurn |-> TRUE, running |-> w.isRunning,
     hasRace |-> HasCurrentRace(w), unfinished |-> HasUnfinishedRace(w),
     index |-> w.currentRaceIndex, pending |-> <<>>]

RECURSIVE Execute(_, _)
RECURSIVE HandleRaceComplete(_, _)

\* Variant of HandleRaceComplete: resetTick() is not called.
HandleRaceCompleteKeepsTick(w, frame) ==
    LET advanced == AdvanceToNextRace(Stop(w))
    IN  IF advanced.hasNextRace
        THEN Execute(advanced.world, frame)
        ELSE Settle(advanced.world, frame, Ok(0))

\* Variant of HandleRaceComplete: after advancing, execute() is not called.
HandleRaceCompleteNoRestart(w, frame) ==
    LET advanced == AdvanceToNextRace(Stop(w))
    IN  Settle(IF advanced.hasNextRace
               THEN [advanced.world EXCEPT !.tick = 0]
               ELSE advanced.world,
               frame, Ok(0))

\* StartRaceCommand.handleRaceComplete()
HandleRaceComplete(w, frame) ==
    LET advanced == AdvanceToNextRace(Stop(w))
    IN  IF advanced.hasNextRace
        THEN Execute([advanced.world EXCEPT !.tick = 0], frame)
        ELSE Settle(advanced.world, frame, Ok(0))

\* Variant of Execute: the "if (this.stateStore.isRunning())" guard is
\* missing.
ExecuteNoRunningGuard(w, frame) ==
    IF ~HasCurrentRace(w)
    THEN Settle(w, frame, Err("RaceNotFoundError"))
    ELSE LET started == RaceStart(GetCurrentRace(w))
             cleared == ClearDomainEvents(started.race)
             index == w.currentRaceIndex
         IN  IF ~started.result.ok
             THEN HandleRaceComplete(w, frame)
             ELSE PublishAll(
                      [w EXCEPT !.races[index + 1] = cleared.race,
                                !.emitted[index + 1] =
                                    @ \o Pushed(GetCurrentRace(w),
                                                started.race)],
                      index, cleared.events,
                      [frame EXCEPT !.kind = "execute", !.race = index])

\* Variant of Execute: a current race that is already finished is reported
\* as RaceNotFoundError.
ExecuteFinishedIsError(w, frame) ==
    IF w.isRunning
    THEN Settle(w, frame, Ok(0))
    ELSE IF ~HasCurrentRace(w)
    THEN Settle(w, frame, Err("RaceNotFoundError"))
    ELSE LET started == RaceStart(GetCurrentRace(w))
             cleared == ClearDomainEvents(started.race)
             index == w.currentRaceIndex
         IN  IF ~started.result.ok
             THEN Settle(w, frame, Err("RaceNotFoundError"))
             ELSE PublishAll(
                      [w EXCEPT !.races[index + 1] = cleared.race,
                                !.emitted[index + 1] =
                                    @ \o Pushed(GetCurrentRace(w),
                                                started.race)],
                      index, cleared.events,
                      [frame EXCEPT !.kind = "execute", !.race = index])

\* StartRaceCommand.execute() up to its return or to its suspension at
\* "await this.eventPublisher.publishAll(startEvents)".
Execute(w, frame) ==
    IF w.isRunning
    THEN Settle(w, frame, Ok(0))
    ELSE IF ~HasCurrentRace(w)
    THEN Settle(w, frame, Err("RaceNotFoundError"))
    ELSE LET started == RaceStart(GetCurrentRace(w))
             cleared == ClearDomainEvents(started.race)
             index == w.currentRaceIndex
         IN  IF ~started.result.ok
             THEN HandleRaceComplete(w, frame)
             ELSE PublishAll(
                      [w EXCEPT !.races[index + 1] = cleared.race,
                                !.emitted[index + 1] =
                                    @ \o Pushed(GetCurrentRace(w),
                                                started.race)],
                      index, cleared.events,
                      [frame EXCEPT !.kind = "execute", !.race = index])

\* Variant of ExecuteAfterPublish: setIsRunning(true) is missing.
ExecuteAfterPublishNoFlag(w, frame) ==
    Settle([w EXCEPT !.intervalId = w.nextId,
                     !.timers = @ \cup {w.nextId},
                     !.nextId = @ + 1],
           frame, Ok(0))

\* execute() after the await: setIsRunning(true), then
\* this.intervalId = timer.setInterval(...), then return ok.
ExecuteAfterPublish(w, frame) ==
    Settle([w EXCEPT !.isRunning = TRUE,
                     !.intervalId = w.nextId,
                     !.timers = @ \cup {w.nextId},
                     !.nextId = @ + 1],
           frame, Ok(0))

\* Variant of ExecuteTurn: incrementTick() is missing.
ExecuteTurnNoTick(w, draws) ==
    IF ~HasCurrentRace(w)
    THEN Stop(w)
    ELSE LET turned == RaceTurn(GetCurrentRace(w), draws)
             cleared == ClearDomainEvents(turned.race)
             index == w.currentRaceIndex
         IN  IF ~turned.result.ok
             THEN HandleRaceComplete(w, TurnFrame(w))
             ELSE PublishAll(
                      [w EXCEPT !.races[index + 1] = cleared.race,
                                !.emitted[index + 1] =
                                    @ \o Pushed(GetCurrentRace(w),
                                                turned.race)],
                      index, cleared.events, TurnFrame(w))

\* StartRaceCommand.executeTurn() up to its return or to its suspension at
\* "await this.eventPublisher.publishAll(events)".
ExecuteTurn(w, draws) ==
    IF ~HasCurrentRace(w)
    THEN Stop(w)
    ELSE LET turned == RaceTurn(GetCurrentRace(w), draws)
             cleared == ClearDomainEvents(turned.race)
             index == w.currentRaceIndex
         IN  IF ~turned.result.ok
             THEN HandleRaceComplete(w, TurnFrame(w))
             ELSE PublishAll(
                      [w EXCEPT !.tick = @ + 1,
                                !.races[index + 1] = cleared.race,
                                !.emitted[index + 1] =
                                    @ \o Pushed(GetCurrentRace(w),
                                                turned.race)],
                      index, cleared.events, TurnFrame(w))

\* executeTurn() after the await: "if (race.isFinished)" on the race the
\* step fetched before the await.
ExecuteTurnAfterPublish(w, frame) ==
    IF IsFinished(w.races[frame.race + 1])
    THEN HandleRaceComplete(w, frame)
    ELSE w

\* The sequence s without its k-th element.
RemoveAt(s, k) == SubSeq(s, 1, k - 1) \o SubSeq(s, k + 1, Len(s))

\* The handler's promise for the event last handed to it resolves:
\* EventBus.publishAll hands the next event over, or, after the last one,
\* the awaiting execute() or executeTurn() goes on.
Resume(w, k) ==
    LET frame == w.tasks[k]
    IN  IF frame.pending # <<>>
        THEN [w EXCEPT !.delivered[frame.race + 1] =
                           Append(@, Head(frame.pending)),
                       !.tasks[k].pending = Tail(frame.pending)]
        ELSE LET rest == [w EXCEPT !.tasks = RemoveAt(@, k)]
             IN  IF frame.kind = "execute"
                 THEN ExecuteAfterPublish(rest, frame)
                 ELSE ExecuteTurnAfterPublish(rest, frame)

\* ------------------------------------------------------------ EventBus
MaxHandlers == 2
MaxBatch == 2
MaxPublishes == 2
MaxSubscribes == 3

\* The handler functions callers register, named 1..MaxHandlers (the code
\* compares function references).  Every handler is asynchronous: the
\* promise it returns settles in a later step than its invocation.
Handlers == 1..MaxHandlers

\* The event types events are published with.
BusEventTypes == {"RaceStarted", "TurnCompleted"}
BusEvents == {[eventType |-> t] : t \in BusEventTypes}

\* Key of the subscribeAll registrations in the subscription history.
AllEvents == "*"

\* A Set<EventHandler>: the list of its entries in insertion order, where a
\* deleted entry stays as an empty slot (NoHandler) that iteration skips.
NoHandler == 0

SetHas(s, h) == \E i \in 1..Len(s) : s[i] = h

SetAdd(s, h) == IF SetHas(s, h) THEN s ELSE Append(s, h)

SetDelete(s, h) ==
    [i \in 1..Len(s) |-> IF s[i] = h THEN NoHandler ELSE s[i]]

SetClear(s) == [i \in 1..Len(s) |-> NoHandler]

SetSize(s) == Cardinality({i \in 1..Len(s) : s[i] # NoHandler})

\* Variant of SetNext: the iterator jumps to the newest entry.
SetNextNewest(s, pos) ==
    LET live == {i \in (pos + 1)..Len(s) : s[i] # NoHandler}
    IN  IF live = {} THEN 0
        ELSE CHOOSE i \in live : \A j \in live : j <= i

\* One step of a Set iterator standing at entry pos (0 before the first):
\* the index of the next entry that is not empty, or 0 when exhausted.
SetNext(s, pos) ==
    LET live == {i \in (pos + 1)..Len(s) : s[i] # NoHandler}
    IN  IF live = {} THEN 0
        ELSE CHOOSE i \in live : \A j \in live : i <= j

\* Map.get(eventType) of a type with no entry.
NoSet == 0

\* The record of a publish()/publishAll() call that has returned.
NoPublish ==
    [kind |-> "none", events |-> <<>>, log |-> <<>>,
     subscribedAt |-> [t \in BusEventTypes \cup {AllEvents} |-> <<>>]]

\* new EventBus(): handlers maps an event type to the Set object (an index
\* into sets) registered for it, allHandlers is the subscribe-all Set.
\* closures are the unsubscribe functions handed out and still held by
\* their callers; tasks are the publish calls suspended at an await.
\* History: subscribed lists, per type and for AllEvents, the handlers
\* registered and not unsubscribed or cleared since, in registration
\* order; completed is the last publish call that returned; subscribes
\* counts subscribe() and subscribeAll() calls.
EventBusNew ==
    [handlers |-> [t \in BusEventTypes |-> NoSet],
     sets |-> <<>>,
     allHandlers |-> <<>>,
     closures |-> {},
     tasks |-> <<>>,
     completed |-> NoPublish,
     subscribed |-> [t \in BusEventTypes \cup {AllEvents} |-> <<>>],
     subscribes |-> 0]

IdleBus == EventBusNew

\* History: handler h registered under a key, and taken out of it.
Registered(seq, h) == IF SetHas(seq, h) THEN seq ELSE Append(seq, h)
Unregistered(seq, h) == SelectSeq(seq, LAMBDA x : x # h)

\* EventBus.subscribe(eventType, handler): the returned closure captures
\* the Set object found or created for the type.
BusSubscribe(b, eventType, handler) ==
    LET withSet == IF b.handlers[eventType] = NoSet
                   THEN [b EXCEPT !.sets = Append(@, <<>>),
                                  !.handlers[eventType] = Len(b.sets) + 1]
                   ELSE b
        handlerSet == withSet.handlers[eventType]
    IN  [withSet EXCEPT
            !.sets[handlerSet] = SetAdd(@, handler),
            !.closures = @ \cup {[set |-> handlerSet,
                                  eventType |-> eventType,
                                  handler |-> handler]},
            !.subscribed[eventType] = Registered(@, handler),
            !.subscribes = @ + 1]

\* EventBus.subscribeAll(handler)
BusSubscribeAll(b, handler) ==
    [b EXCEPT !.allHandlers = SetAdd(@, handler),
              !.closures = @ \cup {[set |-> NoSet, eventType |-> AllEvents,
                                    handler |-> handler]},
              !.subscribed[AllEvents] = Registered(@, handler),
              !.subscribes = @ + 1]

\* The closure returned by subscribe (it deletes the handler from the Set
\* it captured and, when that Set is empty, the map entry of the type) or
\* by subscribeAll.
BusUnsubscribe(b, closure) ==
    IF closure.eventType = AllEvents
    THEN [b EXCEPT !.allHandlers = SetDelete(@, closure.handler),
                   !.subscribed[AllEvents] =
                       Unregistered(@, closure.handler)]
    ELSE LET handlerSet == SetDelete(b.sets[closure.set], closure.handler)
         IN  [b EXCEPT
                 !.sets[closure.set] = handlerSet,
                 !.handlers[closure.eventType] =
                     IF SetSize(handlerSet) = 0 THEN NoSet ELSE @,
                 !.subscribed[closure.eventType] =
                     Unregistered(@, closure.handler)]

\* EventBus.hasSubscribers(eventType)
BusHasSubscribers(b, eventType) ==
    LET typeHandlers == b.handlers[eventType]
    IN  \/ (IF typeHandlers = NoSet THEN 0
            ELSE SetSize(b.sets[typeHandlers])) > 0
        \/ SetSize(b.allHandlers) > 0

\* EventBus.clear(): the map and the subscribe-all Set are emptied; the
\* Set objects that were in the map are left as they are.
BusClear(b) ==
    [b EXCEPT !.handlers = [t \in BusEventTypes |-> NoSet],
              !.allHandlers = SetClear(@),
              !.subscribed = [t \in BusEventTypes \cup {AllEvents} |-> <<>>]]

\* A publish call in flight: events[at] is the event being published, loop
\* the for-loop of publish() it stands in ("type" or "all", or "publish"
\* when publishAll awaits the publish() that returned), set the Set
\* handlers.get() returned for the event, pos the iterator position of the
\* handler awaited.  History: log lists the handler invocations of the
\* call as they begin and end.
PublishFrame(b, kind, events) ==
    [kind |-> kind, events |-> events, at |-> 1, loop |-> "type",
     set |-> b.handlers[events[1].eventType], pos |-> 0, log |-> <<>>,
     subscribedAt |-> b.subscribed]

Invocation(frame, handler, loop, phase) ==
    [event |-> frame.at, handler |-> handler, loop |-> loop,
     phase |-> phase]

\* publish() runs on from the iterator position of the frame: the next
\* type-specific handler, then the next subscribe-all handler, is invoked
\* and awaited; with none left publish() returns.
PublishStep(b, frame) ==
    LET typeHandlers == IF frame.set = NoSet THEN <<>> ELSE b.sets[frame.set]
        nextType == IF frame.loop = "type"
                    THEN SetNext(typeHandlers, frame.pos) ELSE 0
        nextAll == SetNext(b.allHandlers,
                           IF frame.loop = "type" THEN 0 ELSE frame.pos)
    IN  IF nextType # 0
        THEN [frame EXCEPT
                 !.pos = nextType,
                 !.log = Append(@, Invocation(frame, typeHandlers[nextType],
                                              "type", "begin"))]
        ELSE IF nextAll # 0
        THEN [frame EXCEPT
                 !.loop = "all", !.pos = nextAll,
                 !.log = Append(@, Invocation(frame, b.allHandlers[nextAll],
                                              "all", "begin"))]
        ELSE [frame EXCEPT !.loop = "return"]

\* The call of the frame has returned to its caller.
Returned(b, frame) ==
    [b EXCEPT !.completed = [kind |-> frame.kind, events |-> frame.events,
                             log |-> frame.log,
                             subscribedAt |-> frame.subscribedAt]]

\* EventBus.publish(event), up to its first await.
BusPublish(b, event) ==
    LET frame == PublishStep(b, PublishFrame(b, "publish", <<event>>))
    IN  IF frame.loop = "return"
        THEN Returned(b, frame)
        ELSE [b EXCEPT !.tasks = Append(@, frame)]

\* EventBus.publishAll(events), up to its first await: the await of the
\* handler publish() invoked, or of the publish() that returned.
BusPublishAll(b, events) ==
    IF events = <<>>
    THEN Returned(b, [kind |-> "publishAll", events |-> <<>>,
                      log |-> <<>>, subscribedAt |-> b.subscribed])
    ELSE LET frame == PublishStep(b, PublishFrame(b, "publishAll", events))
         IN  [b EXCEPT !.tasks = Append(@,
                 IF frame.loop = "return"
                 THEN [frame EXCEPT !.loop = "publish"] ELSE frame)]

\* The promise task k awaits has settled and the call runs on to its next
\* await or to its return.
BusResume(b, k) ==
    LET frame == b.tasks[k]
        rest == [b EXCEPT !.tasks = RemoveAt(@, k)]
        current == IF frame.loop = "type" THEN b.sets[frame.set][frame.pos]
                   ELSE b.allHandlers[frame.pos]
        afterHandler ==
            PublishStep(b, [frame EXCEPT !.log = Append(@,
                Invocation(frame, current, frame.loop, "end"))])
        nextEvent ==
            PublishStep(b, [frame EXCEPT
                !.at = @ + 1, !.loop = "type", !.pos = 0,
                !.set = b.handlers[frame.events[frame.at + 1].eventType]])
        awaitPublish(f) ==
            IF f.loop = "return" THEN [f EXCEPT !.loop = "publish"] ELSE f
    IN  IF frame.loop = "publish"
        THEN IF frame.at = Len(frame.events)
             THEN Returned(rest, frame)
             ELSE [b EXCEPT !.tasks[k] = awaitPublish(nextEvent)]
        ELSE IF frame.kind = "publishAll"
        THEN [b EXCEPT !.tasks[k] = awaitPublish(afterHandler)]
        ELSE IF afterHandler.loop = "return"
        THEN Returned(rest, afterHandler)
        ELSE [b EXCEPT !.tasks[k] = afterHandler]

\* ---------------------------------------------- the Race specification
\* A lineup of n >= 1 horses handed to Race.create.
Lineups == UNION {[1..n -> Conditions] : n \in 1..MaxHorses}

IdleHorse == RunningHorseCreate(1)
IdleRace == RaceCreate(<<1>>, MaxLen).value

Init ==
    /\ \E conditions \in Lineups, distance \in VALID_DISTANCES :
          race = RaceCreate(conditions, distance).value
    /\ emitted = <<>>
    /\ lastCall = NoCall
    /\ okTurns = 0
    /\ horse = IdleHorse
    /\ lastRun = NoRun
    /\ mockRandom = NoMock
    /\ world = IdleWorld
    /\ bus = IdleBus

\* race.start()
Start ==
    LET out == RaceStart(race)
    IN  /\ race' = out.race
        /\ emitted' = emitted \o Pushed(race, out.race)
        /\ lastCall' = Call("start", out.result, <<>>, <<>>)
        /\ UNCHANGED <<okTurns, horse, lastRun, mockRandom, world, bus>>

\* race.turn(); draws[i] is the Math.random() value consumed by horse i's
\* run() (0 where the call consumes none).
Turn ==
    \E draws \in [1..Len(race.horses) -> RandomDraws] :
        /\ \A i \in 1..Len(race.horses) :
              (TurnPrecondition(race) # "none" \/ race.horses[i].isFinished)
                  => draws[i] = 0
        /\ LET out == RaceTurn(race, draws)
           IN  /\ race' = out.race
               /\ emitted' = emitted \o Pushed(race, out.race)
               /\ lastCall' = Call("turn", out.result, <<>>, draws)
               /\ okTurns' = IF out.result.ok THEN okTurns + 1 ELSE okTurns
               /\ UNCHANGED <<horse, lastRun, mockRandom, world, bus>>

\* race.clearDomainEvents()
Clear ==
    LET out == ClearDomainEvents(race)
    IN  /\ race' = out.race
        /\ lastCall' = Call("clearDomainEvents", Ok(0), out.events, <<>>)
        /\ UNCHANGED <<emitted, okTurns, horse, lastRun, mockRandom, world,
                       bus>>

Next == Start \/ Turn \/ Clear

Spec == Init /\ [][Next]_vars

\* ------------------------- the Race specification, reconstituted races
\* Race.reconstitute skips validation: any saved lineup, results list,
\* started flag and turn count.  Finished horses stand at the race length,
\* the others at the start; results lists the finished horses in any order;
\* the saved turn count is 1 when a horse has finished, else 0.
Perms(S) ==
    {p \in [1..Cardinality(S) -> S] :
        \A a, b \in 1..Cardinality(S) : a # b => p[a] # p[b]}

InitReconstitute ==
    /\ \E conditions \in Lineups, distance \in VALID_DISTANCES,
          isStarted \in BOOLEAN :
       \E finished \in SUBSET (1..Len(conditions)) :
       \E results \in Perms(finished) :
          race = RaceReconstitute(
                    [i \in 1..Len(conditions) |->
                        RunningHorseReconstitute(conditions[i],
                            IF i \in finished THEN distance ELSE 0,
                            i \in finished)],
                    distance, results, isStarted,
                    IF finished = {} THEN 0 ELSE 1)
    /\ emitted = <<>>
    /\ lastCall = NoCall
    /\ okTurns = 0
    /\ horse = IdleHorse
    /\ lastRun = NoRun
    /\ mockRandom = NoMock
    /\ world = IdleWorld
    /\ bus = IdleBus

SpecReconstitute == InitReconstitute /\ [][Next]_vars

\* ------------------------------------------- races with a mocked random
\* vi.spyOn(Math, 'random').mockReturnValue(x): every run() of the race
\* draws the same value.
InitMocked ==
    /\ \E conditions \in Lineups, distance \in VALID_DISTANCES :
          race = RaceCreate(conditions, distance).value
    /\ mockRandom \in RandomDraws
    /\ emitted = <<>>
    /\ lastCall = NoCall
    /\ okTurns = 0
    /\ horse = IdleHorse
    /\ lastRun = NoRun
    /\ world = IdleWorld
    /\ bus = IdleBus

\* race.turn() under the mock.
TurnMocked ==
    LET draws == [i \in 1..Len(race.horses) |->
                     IF TurnPrecondition(race) # "none"
                        \/ race.horses[i].isFinished
                     THEN 0 ELSE mockRandom]
        out == RaceTurn(race, draws)
    IN  /\ race' = out.race
        /\ emitted' = emitted \o Pushed(race, out.race)
        /\ lastCall' = Call("turn", out.result, <<>>, draws)
        /\ okTurns' = IF out.result.ok THEN okTurns + 1 ELSE okTurns
        /\ UNCHANGED <<horse, lastRun, mockRandom, world, bus>>

NextMocked == Start \/ TurnMocked \/ Clear

SpecMocked == InitMocked /\ [][NextMocked]_vars

\* ------------------------------------------------ the driver at work
\* The program: up to MaxRaces fresh races of two horses, the first of
\* which moves one meter a turn.
ProgramLineup == <<1, MaxCond>>
ProgramDistance == MaxLen - 1
ProgramRace == RaceCreate(ProgramLineup, ProgramDistance).value

InitDriver ==
    /\ \E n \in 0..MaxRaces :
          world = DriverNew([i \in 1..n |-> ProgramRace])
    /\ race = IdleRace
    /\ emitted = <<>>
    /\ lastCall = NoCall
    /\ okTurns = 0
    /\ horse = IdleHorse
    /\ lastRun = NoRun
    /\ mockRandom = NoMock
    /\ bus = IdleBus

driverIdle ==
    <<race, emitted, lastCall, okTurns, horse, lastRun, mockRandom, bus>>

\* A caller calls startRace.execute() and does not wait for the promise.
DriverExecute ==
    /\ world.executes < MaxExecutes
    /\ Len(world.tasks) < MaxTasks
    /\ world' = Execute([world EXCEPT !.executes = @ + 1,
                                      !.cycle = CycleOnExecute(world)],
                        CallerFrame(world))
    /\ UNCHANGED driverIdle

\* The Timer calls the callback of an active timer: () => executeTurn().
TimerFires ==
    /\ world.timers # {}
    /\ Len(world.tasks) < MaxTasks
    /\ \E draws \in [1..Len(ProgramLineup) -> RandomDraws] :
          /\ \A i \in 1..Len(ProgramLineup) :
                (\/ ~HasCurrentRace(world)
                 \/ TurnPrecondition(GetCurrentRace(world)) # "none"
                 \/ GetCurrentRace(world).horses[i].isFinished)
                    => draws[i] = 0
          /\ world' = ExecuteTurn([world EXCEPT
                                       !.cycle = CycleOnFiring(world)],
                                   draws)
    /\ UNCHANGED driverIdle

\* A suspended publishAll goes on.
DriverResume ==
    /\ \E k \in 1..Len(world.tasks) : world' = Resume(world, k)
    /\ UNCHANGED driverIdle

\* A caller calls startRace.stop().
DriverStop ==
    /\ world' = Stop(world)
    /\ UNCHANGED driverIdle

\* A caller calls pauseRace.execute().
DriverPause ==
    /\ world.cycle.pauses < MaxPauses
    /\ world' = [Pause(world) EXCEPT !.cycle = CycleOnPause(world)]
    /\ UNCHANGED driverIdle

NextDriver == DriverExecute \/ TimerFires \/ DriverResume \/ DriverStop

SpecDriver == InitDriver /\ [][NextDriver]_vars

\* The driver with PauseRaceCommand as the way to stop it, under a caller
\* and a Timer that act only while no call is suspended: execute() calls
\* and timer firings do not overlap one another, a pause may come at any
\* moment.
SerialExecute ==
    /\ world.tasks = <<>>
    /\ DriverExecute

SerialFiring ==
    /\ world.tasks = <<>>
    /\ TimerFires

NextPause == SerialExecute \/ SerialFiring \/ DriverResume \/ DriverPause

SpecPause == InitDriver /\ [][NextPause]_vars

\* The driver under every way its callers have to start and stop it:
\* execute(), stop() and pauseRace.execute() come at any moment, also
\* while calls are suspended, and firings overlap.

\* A caller calls pauseRace.execute().
ControlPause ==
    /\ world' = Pause(world)
    /\ UNCHANGED driverIdle

\* Math.random() mocked to its largest value, as in the command's tests:
\* the draw of every horse that runs in the next firing.
MockedDraws(w) ==
    [i \in 1..Len(ProgramLineup) |->
        IF \/ ~HasCurrentRace(w)
           \/ TurnPrecondition(GetCurrentRace(w)) # "none"
           \/ GetCurrentRace(w).horses[i].isFinished
        THEN 0 ELSE RandDen - 1]

\* The Timer calls the callback of an active timer, Math.random() mocked.
MockedFiring ==
    /\ world.timers # {}
    /\ Len(world.tasks) < MaxTasks
    /\ world' = ExecuteTurn([world EXCEPT !.cycle = CycleOnFiring(world)],
                            MockedDraws(world))
    /\ UNCHANGED driverIdle

NextControl ==
    DriverExecute \/ MockedFiring \/ DriverResume \/ DriverStop
        \/ ControlPause

SpecControl == InitDriver /\ [][NextControl]_vars

\* ------------------------------------------- the store emptied under way
\* A caller calls store.reset().
CallReset ==
    /\ world' = StoreReset(world)
    /\ UNCHANGED driverIdle

NextReset == DriverExecute \/ TimerFires \/ DriverResume \/ CallReset

SpecReset == InitDriver /\ [][NextReset]_vars

\* --------------------------------------- a program with finished races
\* A race of the program saved after its last turn: both horses at the
\* finish, no event pending.
FinishedRace ==
    RaceReconstitute(
        [i \in 1..Len(ProgramLineup) |->
            RunningHorseReconstitute(ProgramLineup[i], ProgramDistance,
                                     TRUE)],
        ProgramDistance, [i \in 1..Len(ProgramLineup) |-> i], TRUE, 1)

\* The store is given a program in which any race may already be finished;
\* execute() calls may overlap, the Timer fires while no call is suspended.
InitSaved ==
    /\ \E n \in 1..(MaxRaces + 2) :
       \E races \in [1..n -> {ProgramRace, FinishedRace}] :
          world = DriverNew(races)
    /\ race = IdleRace
    /\ emitted = <<>>
    /\ lastCall = NoCall
    /\ okTurns = 0
    /\ horse = IdleHorse
    /\ lastRun = NoRun
    /\ mockRandom = NoMock
    /\ bus = IdleBus

NextSaved == DriverExecute \/ SerialFiring \/ DriverResume

SpecSaved == InitSaved /\ [][NextSaved]_vars

\* -------------------------------------------- a program with a next race
\* A program in which the first race is followed by others; the caller
\* starts it and never stops it.
InitProgram ==
    /\ world = DriverNew([i \in 1..(MaxRaces + 1) |-> ProgramRace])
    /\ race = IdleRace
    /\ emitted = <<>>
    /\ lastCall = NoCall
    /\ okTurns = 0
    /\ horse = IdleHorse
    /\ lastRun = NoRun
    /\ mockRandom = NoMock
    /\ bus = IdleBus

\* The one startRace.execute() call that starts the program.
ProgramStart ==
    /\ world.executes = 0
    /\ world' = Execute([world EXCEPT !.executes = @ + 1],
                        CallerFrame(world))
    /\ UNCHANGED driverIdle

NextProgram == ProgramStart \/ TimerFires \/ DriverResume

SpecProgram == InitProgram /\ [][NextProgram]_vars

\* A scheduled timer's callback can be called.
TimerMayFire == world.timers # {} /\ Len(world.tasks) < MaxTasks

\* Weak fairness of TimerFires, with its enabling condition written out:
\* the Timer keeps calling the callback of a timer that stays scheduled.
TimerKeepsFiring == []<>(~TimerMayFire) \/ []<><<TimerFires>>_vars

\* The same program where the caller does call execute(), the Timer keeps
\* firing and every awaited publication completes.
SpecProgramFair ==
    /\ InitProgram /\ [][NextProgram]_vars
    /\ WF_vars(ProgramStart)
    /\ WF_vars(DriverResume)
    /\ TimerKeepsFiring

\* A program of three or more fresh races, started once and never stopped.
InitLong ==
    /\ world = DriverNew([i \in 1..(MaxRaces + 2) |-> ProgramRace])
    /\ race = IdleRace
    /\ emitted = <<>>
    /\ lastCall = NoCall
    /\ okTurns = 0
    /\ horse = IdleHorse
    /\ lastRun = NoRun
    /\ mockRandom = NoMock
    /\ bus = IdleBus

SpecLong == InitLong /\ [][NextProgram]_vars

\* A program of two or more fresh races driven through StartRaceCommand
\* and PauseRaceCommand alone: the caller calls execute() while no call is
\* suspended, firings overlap and a pause comes at any moment.
NextDriven == SerialExecute \/ MockedFiring \/ DriverResume \/ ControlPause

SpecDriven == InitProgram /\ [][NextDriven]_vars

\* --------------------------------------- a new program under way
\* The inputs of GenerateProgramCommand.execute(); every generated race
\* has the lineup and the distance of ProgramRace.
GenerateInputs ==
    [horseCount : 1..(Len(ProgramLineup) + 1),
     raceCount : 0..(MaxRaces + 1),
     horsesPerRace : 1..Len(ProgramLineup)]

\* The three input validations of GenerateProgramCommand.execute().
GenerateValidation(input) ==
    IF input.horseCount < input.horsesPerRace THEN Err("ValidationError")
    ELSE IF input.raceCount < 1 THEN Err("ValidationError")
    ELSE IF input.horsesPerRace < 2 THEN Err("ValidationError")
    ELSE Ok(0)

\* GenerateProgramCommand.execute(input): on valid input the store gets
\* the new races, index 0, run-flag false and tick 0.
Generate(w, input) ==
    IF ~GenerateValidation(input).ok THEN w
    ELSE LET fresh == [i \in 1..input.raceCount |-> <<>>]
         IN  [w EXCEPT
                 !.races = @ \o [i \in 1..input.raceCount |-> ProgramRace],
                 !.base = Len(w.races),
                 !.currentRaceIndex = Len(w.races),
                 !.isRunning = FALSE,
                 !.tick = 0,
                 !.delivered = @ \o fresh,
                 !.published = @ \o fresh,
                 !.emitted = @ \o fresh]

\* A caller calls generateProgram.execute(input) while the first program
\* is in the store.
CallGenerate ==
    /\ world.base = 0
    /\ \E input \in GenerateInputs : world' = Generate(world, input)
    /\ UNCHANGED driverIdle

\* A caller calls startRace.execute() on the first program.
ExecuteFirstProgram ==
    /\ world.base = 0
    /\ DriverExecute

\* The first program is started and, at any moment, replaced by a new
\* one; execute() is not called on the new program.
NextGenerate ==
    ExecuteFirstProgram \/ TimerFires \/ DriverResume \/ CallGenerate

SpecGenerate == InitProgram /\ [][NextGenerate]_vars

\* ------------------------------------- creating races and leaderboards
\* Race.create(horses, distance) with any lineup, the empty one included;
\* a returned race takes the place of the current one.
Create ==
    \E conditions \in Lineups \cup {<<>>}, distance \in VALID_DISTANCES :
        LET out == RaceCreate(conditions, distance)
        IN  /\ race' = IF out.ok THEN out.value ELSE race
            /\ emitted' = IF out.ok THEN <<>> ELSE emitted
            /\ okTurns' = IF out.ok THEN 0 ELSE okTurns
            /\ lastCall' = [Call("create", out, <<>>, <<>>)
                               EXCEPT !.lineup = conditions]
            /\ UNCHANGED <<horse, lastRun, mockRandom, world, bus>>

\* race.getLeaderboard()
GetLeaderboard ==
    /\ lastCall' = [Call("getLeaderboard", Ok(0), <<>>, <<>>)
                       EXCEPT !.leaderboard = RaceGetLeaderboard(race)]
    /\ UNCHANGED <<race, emitted, okTurns, horse, lastRun, mockRandom, world,
                   bus>>

NextRaceOps == Create \/ GetLeaderboard \/ Start \/ Turn

SpecRaceOps == Init /\ [][NextRaceOps]_vars

\* ------------------------------------- the RunningHorse specification
MaxRuns == 4

\* The raceLength arguments run() is called with.
RunLengths == 1..MaxLen

\* A horse from RunningHorse.create, or from RunningHorse.reconstitute with
\* any saved position and finished flag.
InitHorse ==
    /\ \E condition \in Conditions :
          \/ horse = RunningHorseCreate(condition)
          \/ \E position \in 0..MaxLen, isFinished \in BOOLEAN :
                horse = RunningHorseReconstitute(condition, position,
                                                 isFinished)
    /\ lastRun = NoRun
    /\ mockRandom = NoMock
    /\ world = IdleWorld
    /\ bus = IdleBus
    /\ race = IdleRace
    /\ emitted = <<>>
    /\ lastCall = NoCall
    /\ okTurns = 0

\* horse.run(raceLength)
Run ==
    /\ lastRun.calls < MaxRuns
    /\ \E raceLength \in RunLengths, r \in RandomDraws :
          LET out == HorseRun(horse, raceLength, r)
          IN  /\ horse' = out.horse
              /\ lastRun' = [op |-> "run", ok |-> out.result.ok,
                             error |-> out.result.error,
                             value |-> out.result.value,
                             raceLength |-> raceLength,
                             calls |-> lastRun.calls + 1,
                             draw |-> r, from |-> horse.position]
    /\ UNCHANGED <<raceVars, mockRandom, world, bus>>

NextHorse == Run

SpecHorse == InitHorse /\ [][NextHorse]_vars

\* ----------------------------------------- the EventBus specifications
\* The arrays publishAll() is called with.
Batches == UNION {[1..n -> BusEvents] : n \in 0..MaxBatch}

\* The orders handlers are registered in under one key: none, the first n
\* ascending, or the first n descending.
Registrations ==
    {[i \in 1..n |-> i] : n \in 0..MaxHandlers}
        \cup {[i \in 1..n |-> n + 1 - i] : n \in 2..MaxHandlers}

RECURSIVE SubscribeEach(_, _, _)
\* subscribe(eventType, h), or subscribeAll(h), for each h of handlers.
SubscribeEach(b, eventType, handlers) ==
    IF handlers = <<>> THEN b
    ELSE SubscribeEach(IF eventType = AllEvents
                       THEN BusSubscribeAll(b, Head(handlers))
                       ELSE BusSubscribe(b, eventType, Head(handlers)),
                       eventType, Tail(handlers))

busIdle ==
    <<race, emitted, lastCall, okTurns, horse, lastRun, mockRandom, world>>

\* A bus on which the subscriptions were made before anything is
\* published, and are not changed afterwards.
InitPublish ==
    /\ \E started \in Registrations, completed \in Registrations,
          all \in Registrations :
          bus = SubscribeEach(
                    SubscribeEach(
                        SubscribeEach(EventBusNew, "RaceStarted", started),
                        "TurnCompleted", completed),
                    AllEvents, all)
    /\ race = IdleRace
    /\ emitted = <<>>
    /\ lastCall = NoCall
    /\ okTurns = 0
    /\ horse = IdleHorse
    /\ lastRun = NoRun
    /\ mockRandom = NoMock
    /\ world = IdleWorld

\* await eventBus.publishAll(events), called when no publish is in flight
CallPublishAll ==
    /\ bus.tasks = <<>>
    /\ \E events \in Batches : bus' = BusPublishAll(bus, events)
    /\ UNCHANGED busIdle

\* eventBus.publish(event), called whether or not a publish is in flight
CallPublish ==
    /\ Len(bus.tasks) < MaxPublishes
    /\ \E event \in BusEvents : bus' = BusPublish(bus, event)
    /\ UNCHANGED busIdle

\* The promise a suspended publish call awaits settles.
HandlerSettles ==
    /\ \E k \in 1..Len(bus.tasks) : bus' = BusResume(bus, k)
    /\ UNCHANGED busIdle

NextPublishAll == CallPublishAll \/ HandlerSettles

SpecPublishAll == InitPublish /\ [][NextPublishAll]_vars

NextPublish == CallPublish \/ HandlerSettles

SpecPublish == InitPublish /\ [][NextPublish]_vars

\* A new bus whose callers subscribe, unsubscribe, clear and publish, one
\* call at a time: no subscription changes while a publish is in flight.
InitBus ==
    /\ bus = EventBusNew
    /\ race = IdleRace
    /\ emitted = <<>>
    /\ lastCall = NoCall
    /\ okTurns = 0
    /\ horse = IdleHorse
    /\ lastRun = NoRun
    /\ mockRandom = NoMock
    /\ world = IdleWorld

\* eventBus.subscribe(eventType, handler)
CallSubscribe ==
    /\ bus.tasks = <<>>
    /\ bus.subscribes < MaxSubscribes
    /\ \E eventType \in BusEventTypes, handler \in Handlers :
          bus' = BusSubscribe(bus, eventType, handler)
    /\ UNCHANGED busIdle

\* eventBus.subscribeAll(handler)
CallSubscribeAll ==
    /\ bus.tasks = <<>>
    /\ bus.subscribes < MaxSubscribes
    /\ \E handler \in Handlers : bus' = BusSubscribeAll(bus, handler)
    /\ UNCHANGED busIdle

\* unsubscribe(): a caller calls the closure it holds, once
CallUnsubscribe ==
    /\ bus.tasks = <<>>
    /\ \E closure \in bus.closures :
          bus' = [BusUnsubscribe(bus, closure) EXCEPT
                     !.closures = @ \ {closure}]
    /\ UNCHANGED busIdle

\* eventBus.clear()
CallClear ==
    /\ bus.tasks = <<>>
    /\ bus' = BusClear(bus)
    /\ UNCHANGED busIdle

\* await eventBus.publish(event), called when no publish is in flight
SerialPublish ==
    /\ bus.tasks = <<>>
    /\ CallPublish

NextBus ==
    \/ CallSubscribe
    \/ CallSubscribeAll
    \/ CallUnsubscribe
    \/ CallClear
    \/ SerialPublish
    \/ HandlerSettles

SpecBus == InitBus /\ [][NextBus]_vars

\* The same bus where callers keep the closures they were handed and call
\* them any number of times.
CallClosure ==
    /\ bus.tasks = <<>>
    /\ \E closure \in bus.closures : bus' = BusUnsubscribe(bus, closure)
    /\ UNCHANGED busIdle

NextClosures ==
    \/ CallSubscribe
    \/ CallSubscribeAll
    \/ CallClosure
    \/ CallClear
    \/ SerialPublish
    \/ HandlerSettles

SpecClosures == InitBus /\ [][NextClosures]_vars

\* ------------------------------------------------------------ properties
\* C1: in every state reached from Race.create by start() and turn() calls,
\* results is no longer than the lineup, holds no horse twice, holds only
\* lineup horses that are finished, and the race is finished exactly when
\* results is as long as the lineup.
C1_ResultsInvariant ==
    /\ Len(race.results) <= Len(race.horses)
    /\ \A a, b \in DOMAIN race.results :
          a # b => race.results[a] # race.results[b]
    /\ \A k \in DOMAIN race.results :
          /\ race.results[k] \in DOMAIN race.horses
          /\ race.horses[race.results[k]].isFinished
    /\ IsFinished(race) <=> (Len(race.results) = Len(race.horses))

\* After two turns one horse is in results while another is still running.
C1_Witness ==
    /\ Len(race.results) >= 1
    /\ ~IsFinished(race)
    /\ okTurns >= 2

\* C2: the race only moves not-started -> started -> finished: isStarted
\* and isFinished never go from true to false, and a finished race is a
\* started race.
C2_OneWayStates ==
    /\ [](IsFinished(race) => race.isStarted)
    /\ [][/\ race.isStarted => race'.isStarted
          /\ IsFinished(race) => IsFinished(race')]_vars

\* start() was called on a race that had already finished.
C2_Witness ==
    /\ IsFinished(race)
    /\ race.isStarted
    /\ lastCall.op = "start"

\* C3: turnCount starts at 0, grows by exactly 1 on a turn() that returns
\* Ok, is unchanged by a turn() that returns Err and by start(), and so
\* equals the number of successful turn() calls.
C3_TurnCount ==
    /\ [](race.turnCount = okTurns)
    /\ [][/\ (lastCall'.op = "turn" /\ lastCall'.ok)
                => race'.turnCount = race.turnCount + 1
          /\ (lastCall'.op = "turn" /\ ~lastCall'.ok)
                => race'.turnCount = race.turnCount
          /\ lastCall'.op = "start"
                => race'.turnCount = race.turnCount]_vars

\* A turn() failed after two had succeeded.
C3_Witness ==
    /\ okTurns >= 2
    /\ lastCall.op = "turn"
    /\ ~lastCall.ok

\* The horses that are finished after a step and were not before it.
FinishedInStep ==
    {i \in DOMAIN race.horses :
        ~race.horses[i].isFinished /\ race'.horses[i].isFinished}

\* The indices of the events of one type in a sequence of events.
EventsOfType(events, eventType) ==
    {k \in DOMAIN events : events[k].eventType = eventType}

\* C4: a successful turn() appends to the pending buffer, in order, one
\* HorseFinished per horse that finished in this turn, then exactly one
\* TurnCompleted, then a RaceFinished iff the race became finished in this
\* turn; a failed turn() appends nothing.
C4_TurnEventOrder ==
    [][lastCall'.op = "turn" =>
        LET new == Pushed(race, race')
            nf == Cardinality(FinishedInStep)
            became == ~IsFinished(race) /\ IsFinished(race')
        IN  /\ race'.domainEvents = race.domainEvents \o new
            /\ IF lastCall'.ok
               THEN /\ Len(new) = nf + 1 + (IF became THEN 1 ELSE 0)
                    /\ \A k \in 1..nf : new[k].eventType = "HorseFinished"
                    /\ {new[k].horseId : k \in 1..nf} = FinishedInStep
                    /\ new[nf + 1].eventType = "TurnCompleted"
                    /\ became => new[nf + 2].eventType = "RaceFinished"
               ELSE new = <<>>]_vars

\* The last turn pushed two HorseFinished, a TurnCompleted and a
\* RaceFinished.
C4_Witness ==
    /\ lastCall.op = "turn"
    /\ lastCall.ok
    /\ Len(emitted) >= 4
    /\ emitted[Len(emitted)].eventType = "RaceFinished"
    /\ emitted[Len(emitted) - 1].eventType = "TurnCompleted"
    /\ emitted[Len(emitted) - 2].eventType = "HorseFinished"
    /\ emitted[Len(emitted) - 3].eventType = "HorseFinished"

\* C5: over the life of a race at most one RaceFinished is emitted; it is
\* emitted by the call that makes results as long as the lineup, it is the
\* last event the race emits, and its results list has one entry per lineup
\* horse with places 1..n in the order of race.results.
C5_RaceFinishedOnce ==
    LET idx == EventsOfType(emitted, "RaceFinished")
    IN  /\ Cardinality(idx) <= 1
        /\ IsFinished(race) <=> idx # {}
        /\ idx # {} =>
              /\ idx = {Len(emitted)}
              /\ LET e == emitted[Len(emitted)]
                 IN  /\ Len(e.results) = Len(race.horses)
                     /\ {e.results[k].horseId : k \in DOMAIN e.results}
                            = DOMAIN race.horses
                     /\ \A k \in DOMAIN e.results :
                           /\ e.results[k].place = k
                           /\ e.results[k].horseId = race.results[k]

\* A race of at least two horses has finished and a later turn() was
\* refused.
C5_Witness ==
    /\ IsFinished(race)
    /\ Len(race.horses) >= 2
    /\ lastCall.op = "turn"
    /\ lastCall.error = "RaceAlreadyFinishedError"

\* C6: on a race that is not finished every start() returns Ok and leaves
\* isStarted true, a start() on a started race changes nothing, and a
\* started race has emitted exactly one RaceStarted in total.
C6_StartIdempotent ==
    /\ [](Cardinality(EventsOfType(emitted, "RaceStarted"))
             = IF race.isStarted THEN 1 ELSE 0)
    /\ [][(lastCall'.op = "start" /\ ~IsFinished(race)) =>
             /\ lastCall'.ok
             /\ race'.isStarted
             /\ race.isStarted => (race' = race /\ emitted' = emitted)]_vars

\* start() returned Ok on a race that had already run a turn.
C6_Witness ==
    /\ lastCall.op = "start"
    /\ lastCall.ok
    /\ race.turnCount >= 1
    /\ ~IsFinished(race)

\* C7: turn() on a race that has not been started returns
\* RaceNotStartedError and changes nothing, also when the race is finished
\* as well (the not-started check comes first).
C7_TurnNotStarted ==
    [][(lastCall'.op = "turn" /\ ~race.isStarted) =>
          /\ ~lastCall'.ok
          /\ lastCall'.error = "RaceNotStartedError"
          /\ race' = race
          /\ emitted' = emitted]_vars

\* turn() was refused on a race that is finished and was never started.
C7_Witness ==
    /\ lastCall.op = "turn"
    /\ lastCall.error = "RaceNotStartedError"
    /\ ~race.isStarted
    /\ IsFinished(race)

\* C8: every start() and turn() on a started, finished race returns
\* RaceAlreadyFinishedError and leaves isStarted, turnCount, results, the
\* horses and the pending buffer unchanged.
C8_FinishedIsTerminal ==
    [][(lastCall'.op \in {"start", "turn"} /\ race.isStarted
            /\ IsFinished(race)) =>
          /\ ~lastCall'.ok
          /\ lastCall'.error = "RaceAlreadyFinishedError"
          /\ race' = race
          /\ emitted' = emitted]_vars

\* start() was refused on a finished race that still holds pending events.
C8_Witness ==
    /\ lastCall.op = "start"
    /\ lastCall.error = "RaceAlreadyFinishedError"
    /\ race.isStarted
    /\ IsFinished(race)
    /\ race.domainEvents # <<>>

\* C9: every horse of a created race stays within 0..raceLength, its
\* position never decreases, its isFinished never goes back to false, and
\* a run() whose movement reaches or passes raceLength leaves it at exactly
\* raceLength and finished.
C9_PositionBounds ==
    /\ [](\A i \in DOMAIN race.horses :
             /\ 0 <= race.horses[i].position
             /\ race.horses[i].position <= RaceLength(race))
    /\ [][\A i \in DOMAIN race.horses :
             LET before == race.horses[i]
                 after == race'.horses[i]
             IN  /\ after.position >= before.position
                 /\ before.isFinished => after.isFinished
                 /\ (/\ lastCall'.op = "turn"
                     /\ lastCall'.ok
                     /\ ~before.isFinished
                     /\ before.position
                          + Movement(lastCall'.draws[i], before.condition)
                            >= RaceLength(race))
                       => (/\ after.position = RaceLength(race)
                           /\ after.isFinished)]_vars

\* A horse ran in the last turn with a movement that took it past the
\* finish line (it stood at okTurns - 1 or more before), and stands at
\* exactly the race length.
C9_Witness ==
    /\ lastCall.op = "turn"
    /\ lastCall.ok
    /\ \E i \in DOMAIN race.horses :
          /\ lastCall.draws[i] # 0
          /\ (okTurns - 1) + Movement(lastCall.draws[i],
                                      race.horses[i].condition)
                > RaceLength(race)
          /\ race.horses[i].isFinished
          /\ race.horses[i].position = RaceLength(race)

\* C10: run() on a finished horse returns HorseAlreadyFinishedError and
\* leaves position and isFinished unchanged, whatever the raceLength
\* argument and however often it is called.
C10_NoDoubleFinish ==
    [][(horse.isFinished /\ lastRun'.calls = lastRun.calls + 1) =>
          /\ ~lastRun'.ok
          /\ lastRun'.error = "HorseAlreadyFinishedError"
          /\ horse' = horse]_vars

\* A finished horse was run again, at least for the third time in a row
\* and with a raceLength other than the one it stands at.
C10_Witness ==
    /\ horse.isFinished
    /\ lastRun.calls >= 3
    /\ ~lastRun.ok
    /\ lastRun.raceLength # horse.position

\* C11: a run() call on an unfinished horse returns Ok(movement) where
\* movement is the integer floor(random * condition) + 1, so
\* 1 <= movement <= condition; the position advances by movement or is
\* capped at raceLength, and the value in Ok is the uncapped movement in
\* both cases.
C11_MovementRange ==
    [][(lastRun'.calls = lastRun.calls + 1 /\ ~horse.isFinished) =>
          LET movement == lastRun'.value
              condition == horse.condition
              raceLength == lastRun'.raceLength
          IN  /\ lastRun'.ok
              /\ movement \in 1..condition
              /\ (movement - 1) * RandDen <= lastRun'.draw * condition
              /\ lastRun'.draw * condition < movement * RandDen
              /\ IF horse.position + movement >= raceLength
                 THEN horse'.position = raceLength /\ horse'.isFinished
                 ELSE /\ horse'.position = horse.position + movement
                      /\ ~horse'.isFinished]_vars

\* A run whose movement overshoots the finish line: the position is capped
\* and the returned movement is larger than the distance covered.
C11_Witness ==
    /\ lastRun.op = "run"
    /\ lastRun.ok
    /\ horse.position = lastRun.raceLength
    /\ lastRun.from < lastRun.raceLength
    /\ lastRun.from + lastRun.value > lastRun.raceLength

IsHorseFinished(event) == event.eventType = "HorseFinished"

\* C12: the k-th HorseFinished event ever emitted carries place k and names
\* the horse at index k of results (so places count 1..n in emission order
\* and a horse that finished in an earlier turn has the smaller place);
\* HorseFinished events of one turn are emitted in increasing lineup index.
C12_FinishOrder ==
    LET finishes == SelectSeq(emitted, IsHorseFinished)
    IN  /\ Len(finishes) = Len(race.results)
        /\ \A k \in 1..Len(finishes) :
              /\ finishes[k].place = k
              /\ finishes[k].horseId = race.results[k]
        /\ \A i \in 1..(Len(emitted) - 1) :
              (/\ emitted[i].eventType = "HorseFinished"
               /\ emitted[i + 1].eventType = "HorseFinished")
              => emitted[i].horseId < emitted[i + 1].horseId

\* Two horses crossed the line in the same turn.
C12_Witness ==
    \E i \in 1..(Len(emitted) - 1) :
        /\ emitted[i].eventType = "HorseFinished"
        /\ emitted[i + 1].eventType = "HorseFinished"
        /\ race.results = <<emitted[i].horseId, emitted[i + 1].horseId>>

IsTurnCompleted(event) == event.eventType = "TurnCompleted"

\* C13: a successful turn() emits exactly one TurnCompleted; its turnNumber
\* is turnCount after the increment and its positions hold one entry per
\* lineup horse, in lineup order, with the horse's position and finished
\* flag after the turn.
C13_TurnCompleted ==
    [][(lastCall'.op = "turn" /\ lastCall'.ok) =>
          LET completed == SelectSeq(Pushed(race, race'), IsTurnCompleted)
          IN  /\ Len(completed) = 1
              /\ race'.turnCount = race.turnCount + 1
              /\ completed[1].turnNumber = race'.turnCount
              /\ DOMAIN completed[1].positions = 1..Len(race'.horses)
              /\ \A i \in 1..Len(race'.horses) :
                    completed[1].positions[i] =
                        [horseId |-> i,
                         position |-> race'.horses[i].position,
                         isFinished |-> race'.horses[i].isFinished]]_vars

\* A second or later turn whose snapshot holds a finished horse and one
\* that is still running.
C13_Witness ==
    /\ lastCall.op = "turn"
    /\ lastCall.ok
    /\ emitted # <<>>
    /\ LET last == emitted[Len(emitted)]
       IN  /\ last.eventType = "TurnCompleted"
           /\ last.turnNumber >= 2
           /\ \E i, j \in DOMAIN last.positions :
                 /\ last.positions[i].isFinished
                 /\ ~last.positions[j].isFinished
                 /\ last.positions[j].position > 0

\* C14: Race.create with an empty lineup returns NoHorsesError and no race
\* (the current race is left as it was); with a non-empty lineup it returns
\* a race that is not started, not finished, with turnCount 0, empty
\* results, no pending events and one running horse per input horse, in
\* input order, at position 0 and not finished.
C14_Create ==
    [][lastCall'.op = "create" =>
          LET lineup == lastCall'.lineup
          IN  IF Len(lineup) = 0
              THEN /\ ~lastCall'.ok
                   /\ lastCall'.error = "NoHorsesError"
                   /\ race' = race
              ELSE /\ lastCall'.ok
                   /\ ~race'.isStarted
                   /\ ~IsFinished(race')
                   /\ race'.turnCount = 0
                   /\ race'.results = <<>>
                   /\ race'.domainEvents = <<>>
                   /\ DOMAIN race'.horses = 1..Len(lineup)
                   /\ \A i \in 1..Len(lineup) :
                         /\ race'.horses[i].condition = lineup[i]
                         /\ race'.horses[i].position = 0
                         /\ ~race'.horses[i].isFinished]_vars

\* A race was just created from a lineup of two different horses.
C14_Witness ==
    /\ lastCall.op = "create"
    /\ lastCall.ok
    /\ Len(race.horses) >= 2
    /\ race.horses[1].condition # race.horses[2].condition
    /\ race.horses[1].condition = lastCall.lineup[1]

\* C15: getLeaderboard() returns every lineup horse exactly once, by
\* position descending and, among equal positions, in lineup order, with
\* rank the 1-based index; the race and its events are as before the call.
C15_Leaderboard ==
    [][lastCall'.op = "getLeaderboard" =>
          LET board == lastCall'.leaderboard
              n == Len(race.horses)
          IN  /\ race' = race
              /\ emitted' = emitted
              /\ Len(board) = n
              /\ {board[k].horse : k \in 1..n} = 1..n
              /\ \A k \in 1..n : board[k].rank = k
              /\ \A k, l \in 1..n :
                    k < l =>
                       LET a == race.horses[board[k].horse]
                           b == race.horses[board[l].horse]
                       IN  \/ a.position > b.position
                           \/ /\ a.position = b.position
                              /\ board[k].horse < board[l].horse]_vars

\* A leaderboard led by a horse that is not first in the lineup.
C15_Witness ==
    /\ lastCall.op = "getLeaderboard"
    /\ Len(lastCall.leaderboard) >= 2
    /\ lastCall.leaderboard[1].horse # 1
    /\ lastCall.leaderboard[1].rank = 1

IsRaceFinished(event) == event.eventType = "RaceFinished"

\* C16: in a one-horse race of length L whose every run() moves m meters,
\* the race is finished exactly from successful turn ceil(L / m) on; then
\* turnCount is ceil(L / m), results is that horse, its position is L, and
\* exactly one RaceFinished, with the single entry of place 1, was emitted.
C16_FixedMovement ==
    Len(race.horses) = 1 =>
        LET m == Movement(mockRandom, race.horses[1].condition)
            L == RaceLength(race)
            turnsNeeded == (L + m - 1) \div m
            finals == SelectSeq(emitted, IsRaceFinished)
        IN  /\ IsFinished(race) <=> okTurns >= turnsNeeded
            /\ okTurns <= turnsNeeded
            /\ race.turnCount = okTurns
            /\ IF IsFinished(race)
               THEN /\ race.results = <<1>>
                    /\ race.horses[1].position = L
                    /\ finals = <<RaceFinished(<<[place |-> 1, horseId |-> 1,
                                                  finishPosition |-> L]>>)>>
               ELSE /\ finals = <<>>
                    /\ race.horses[1].position = okTurns * m

\* A one-horse race that took several turns, the last of them capped.
C16_Witness ==
    /\ Len(race.horses) = 1
    /\ IsFinished(race)
    /\ okTurns >= 2
    /\ okTurns * Movement(mockRandom, race.horses[1].condition)
          > RaceLength(race)

\* The turn steps that have begun and not run to their end.
TurnStepsInFlight == {k \in 1..Len(world.tasks) : world.tasks[k].inTurn}

\* C17: at most one timer scheduled by the driver is active in the Timer,
\* and an active one is the handle the driver holds.
C17_OneTimer ==
    /\ Cardinality(world.timers) <= 1
    /\ world.timers \subseteq {world.intervalId}

\* C18: no two turn steps are in flight at once.
C18_OneTurnStep == Cardinality(TurnStepsInFlight) <= 1

\* s is an initial part of t.
IsPrefix(s, t) == Len(s) <= Len(t) /\ s = SubSeq(t, 1, Len(s))

\* C19: the events of each race reach the handler in the order the race
\* added them: RaceStarted first, then the events of turn 1, of turn 2,
\* ..., each turn's events together and in their within-turn order.
C19_DeliveryOrder ==
    \A i \in 1..Len(world.races) :
        IsPrefix(world.delivered[i], world.emitted[i])

\* C20: an execute() call returns Err exactly when, at the call, the
\* run-flag was false and the store had no race at the current index; the
\* error is RaceNotFoundError and the call scheduled no timer, left the
\* run-flag false and published nothing.  Every other call returns Ok.
C20_ExecuteResult ==
    [][world'.returns = world.returns + 1 =>
          LET result == world'.lastExecute
          IN  /\ ~result.ok <=> (~result.running /\ ~result.hasRace)
              /\ ~result.ok =>
                    /\ result.error = "RaceNotFoundError"
                    /\ world'.timers = world.timers
                    /\ world'.intervalId = world.intervalId
                    /\ ~world.isRunning /\ ~world'.isRunning
                    /\ world'.delivered = world.delivered
                    /\ world'.tasks = world.tasks]_vars

\* execute() on an empty program has returned RaceNotFoundError.
C20_Witness ==
    /\ world.returns >= 1
    /\ ~world.lastExecute.ok
    /\ world.lastExecute.error = "RaceNotFoundError"
    /\ world.races = <<>>

\* C21: execute() called while the run-flag is true returns Ok at once and
\* changes nothing: no race field, no delivered event, no suspended call,
\* no timer, and the store's index, tick and run-flag are as before.
C21_ExecuteWhileRunning ==
    [][(world'.executes = world.executes + 1 /\ world.isRunning) =>
          /\ world'.returns = world.returns + 1
          /\ world'.lastExecute.ok
          /\ world' = [world EXCEPT !.executes = @ + 1,
                                    !.returns = @ + 1,
                                    !.lastExecute = world'.lastExecute]]_vars

\* The last execute() to return was called with the run-flag true, while
\* the race was under way.
C21_Witness ==
    /\ world.returns >= 1
    /\ world.lastExecute.running
    /\ world.lastExecute.ok
    /\ world.isRunning
    /\ world.timers # {}
    /\ world.tick >= 1

\* C22: an execute() called with the run-flag false and an unfinished
\* current race returns Ok; when it returns the race is started, its
\* pending events (the RaceStarted of a first start) have been handed over
\* and none is left pending, the timer is scheduled in the returning step
\* (so after the hand-over), the run-flag is true and the driver holds a
\* handle of an active timer.
C22_ExecuteStarts ==
    [][(/\ world'.returns = world.returns + 1
        /\ ~world'.lastExecute.running
        /\ world'.lastExecute.unfinished) =>
          LET i == world'.lastExecute.index + 1
          IN  /\ world'.lastExecute.ok
              /\ world'.races[i].isStarted
              /\ world'.races[i].domainEvents = <<>>
              /\ world'.delivered[i] # <<>>
              /\ Head(world'.delivered[i]) =
                    RaceStarted(Len(world'.races[i].horses),
                                world'.races[i].distance)
              /\ world'.isRunning
              /\ world'.intervalId # NoTimer
              /\ world'.intervalId \in world'.timers
              /\ world'.intervalId \notin world.timers]_vars

\* A first execute() on a fresh race has returned: RaceStarted was handed
\* over, the run-flag is true and the one timer is the handle held.
C22_Witness ==
    /\ world.returns = 1
    /\ ~world.lastExecute.running
    /\ world.lastExecute.unfinished
    /\ world.isRunning
    /\ world.timers = {world.intervalId}
    /\ world.delivered[1] = <<RaceStarted(Len(ProgramLineup),
                                          ProgramDistance)>>

\* C23: when a timer-driven turn finishes the current race the completion
\* handler clears the timer and the run-flag and moves the index on by one
\* with the tick reset and the next race started; so the index only ever
\* passes finished races, and once every suspended call has run to its end
\* a started program either runs its unfinished current race (run-flag
\* true, the held timer active) or has finished its last race (run-flag
\* false, no timer held).
C23_Completion ==
    [][/\ world'.currentRaceIndex # world.currentRaceIndex =>
             /\ world'.currentRaceIndex = world.currentRaceIndex + 1
             /\ IsFinished(world.races[world.currentRaceIndex + 1])
             /\ world'.tick = 0
             /\ GetCurrentRace(world').isStarted
       /\ \A i \in 1..world'.currentRaceIndex :
             IsFinished(world'.races[i])
       /\ (world'.tasks = <<>> /\ world'.returns >= 1) =>
             IF IsFinished(GetCurrentRace(world'))
             THEN /\ world'.currentRaceIndex = Len(world'.races) - 1
                  /\ ~world'.isRunning
                  /\ world'.intervalId = NoTimer
             ELSE /\ world'.isRunning
                  /\ world'.intervalId \in world'.timers]_vars

\* C24: PauseRaceCommand.execute(), that is stop() followed by
\* setIsRunning(false), cancels the timer the driver holds if it holds
\* one, sets the run-flag false and leaves isRunning() false; the index,
\* the tick, every race, the suspended calls and the delivered events are
\* unchanged, and with no timer held only the run-flag can change.
C24_StopFrame ==
    [][world'.cycle.pauses = world.cycle.pauses + 1 =>
          /\ world' = [world EXCEPT
                          !.cycle = world'.cycle,
                          !.isRunning = FALSE,
                          !.intervalId = NoTimer,
                          !.timers = world.timers \ {world.intervalId}]
          /\ world.intervalId = NoTimer => world'.timers = world.timers]_vars

\* A pause that cancelled the timer of a race under way.
C24_Witness ==
    /\ world.cycle.phase = "paused"
    /\ world.cycle.tick >= 1
    /\ world.cycle.turnCount >= 1
    /\ ~world.isRunning
    /\ world.intervalId = NoTimer
    /\ world.timers = {}
    /\ world.nextId > 1
    /\ world.tasks = <<>>

IsRaceStarted(event) == event.eventType = "RaceStarted"

\* C25: the first timer firing after a pause followed by an execute() on
\* the then unfinished race leaves the index as it was at the pause, takes
\* that race's turnCount and the tick to one more than they were at the
\* pause, and the race has raised a single RaceStarted.
C25_PauseResume ==
    [][(world.cycle.phase = "resumed" /\ world'.cycle.phase = "none") =>
          LET paused == world.cycle
          IN  /\ world'.currentRaceIndex = paused.index
              /\ world'.races[paused.index + 1].turnCount
                    = paused.turnCount + 1
              /\ world'.tick = paused.tick + 1
              /\ Len(SelectSeq(world'.emitted[paused.index + 1],
                               IsRaceStarted)) = 1]_vars

IsBegin(invocation) == invocation.phase = "begin"

RECURSIVE ExpectedFrom(_, _, _)
\* The invocations owed to events[k], events[k + 1], ...: per event the
\* handlers subscribed to its type and then the subscribe-all handlers,
\* both in registration order.
ExpectedFrom(events, subscribed, k) ==
    IF k > Len(events) THEN <<>>
    ELSE LET typed == subscribed[events[k].eventType]
             all == subscribed[AllEvents]
         IN  [i \in 1..Len(typed) |->
                 [event |-> k, handler |-> typed[i], loop |-> "type",
                  phase |-> "begin"]]
             \o [i \in 1..Len(all) |->
                 [event |-> k, handler |-> all[i], loop |-> "all",
                  phase |-> "begin"]]
             \o ExpectedFrom(events, subscribed, k + 1)

\* Every invocation of the log has ended before the next one begins.
OneAtATime(log) ==
    \A i \in 1..Len(log) :
        IF i % 2 = 1 THEN log[i].phase = "begin"
        ELSE log[i] = [log[i - 1] EXCEPT !.phase = "end"]

InOrder(call, done) ==
    LET begun == SelectSeq(call.log, IsBegin)
        expected == ExpectedFrom(call.events, call.subscribedAt, 1)
    IN  /\ OneAtATime(call.log)
        /\ IsPrefix(begun, expected)
        /\ done => (begun = expected /\ Len(call.log) % 2 = 0)

\* C26: the handler invocations of one publishAll(events) call begin in
\* array order of the events and, per event, with the handlers subscribed
\* to its type in registration order followed by the subscribe-all
\* handlers in registration order; each invocation ends before the next
\* begins, and a call that has returned has made all of them.
C26_PublishAllOrder ==
    /\ \A k \in 1..Len(bus.tasks) : InOrder(bus.tasks[k], FALSE)
    /\ bus.completed.kind = "publishAll" => InOrder(bus.completed, TRUE)

\* A returned publishAll of two events of different types, with two
\* handlers on the first event's type and two subscribe-all handlers.
C26_Witness ==
    /\ bus.completed.kind = "publishAll"
    /\ Len(bus.completed.events) >= 2
    /\ bus.completed.events[1].eventType # bus.completed.events[2].eventType
    /\ Len(bus.completed.subscribedAt[bus.completed.events[1].eventType]) >= 2
    /\ Len(bus.completed.subscribedAt[AllEvents]) >= 2
    /\ Len(bus.completed.log) >= 12

\* C27: of two publish() calls, no handler invocation of the later call
\* has begun while a handler invocation of the earlier call has not ended.
C27_PublishOrder ==
    \A i \in 1..Len(bus.tasks), j \in 1..Len(bus.tasks) :
        (i < j /\ bus.tasks[i].loop \in {"type", "all"})
            => bus.tasks[j].log = <<>>

Invocations(call, handler, loop) ==
    Len(SelectSeq(call.log,
                  LAMBDA invocation : /\ IsBegin(invocation)
                                      /\ invocation.handler = handler
                                      /\ invocation.loop = loop))

\* C28: a publish(e) call that has returned has invoked each handler once
\* as a type-specific handler if the handler is subscribed to the type of
\* e and not at all as such otherwise, and once as a subscribe-all handler
\* if it is registered through subscribeAll and not at all as such
\* otherwise.
C28_InvokedOnce ==
    bus.completed.kind = "publish" =>
        LET call == bus.completed
            eventType == call.events[1].eventType
        IN  \A handler \in Handlers :
                /\ Invocations(call, handler, "type")
                     = IF SetHas(call.subscribedAt[eventType], handler)
                       THEN 1 ELSE 0
                /\ Invocations(call, handler, "all")
                     = IF SetHas(call.subscribedAt[AllEvents], handler)
                       THEN 1 ELSE 0

\* C29: hasSubscribers(type) is true exactly when a handler is subscribed
\* to the type or through subscribeAll and has not been unsubscribed or
\* cleared since, and a publish call invokes no handler that was
\* unsubscribed or cleared before the call.
C29_Unsubscribed ==
    /\ \A eventType \in BusEventTypes :
          BusHasSubscribers(bus, eventType)
              <=> \/ bus.subscribed[eventType] # <<>>
                  \/ bus.subscribed[AllEvents] # <<>>
    /\ \A k \in 1..Len(bus.completed.log) :
          LET invocation == bus.completed.log[k]
              key == IF invocation.loop = "all" THEN AllEvents
                     ELSE bus.completed.events[1].eventType
          IN  SetHas(bus.completed.subscribedAt[key], invocation.handler)

\* C30: the events passed to publishAll for a race are exactly the events
\* the race has raised, each once and in the order raised, and between
\* driver steps no race has an event pending.
C30_DrainedOnce ==
    \A i \in 1..Len(world.races) :
        /\ world.published[i] = world.emitted[i]
        /\ world.races[i].domainEvents = <<>>

\* A race run to its end: its RaceStarted, several turns' events and its
\* RaceFinished have all been passed on.
C30_Witness ==
    /\ world.races # <<>>
    /\ IsFinished(world.races[1])
    /\ world.races[1].turnCount >= 2
    /\ Len(world.published[1]) >= 5
    /\ Head(world.published[1]).eventType = "RaceStarted"
    /\ world.published[1][Len(world.published[1])].eventType
          = "RaceFinished"

\* C31: a timer firing whose race.turn() succeeds adds exactly 1 to the
\* tick; a firing whose turn() fails or that finds no current race does
\* not add to it; a firing that finds no current race leaves the driver
\* without its timer and the run-flag false.
C31_TickPerFiring ==
    [][TimerFires =>
          IF ~HasCurrentRace(world)
          THEN /\ world'.tick = world.tick
               /\ ~world'.isRunning
               /\ world'.intervalId = NoTimer
               /\ world'.timers = world.timers \ {world.intervalId}
          ELSE IF TurnPrecondition(GetCurrentRace(world)) = "none"
          THEN world'.tick = world.tick + 1
          ELSE world'.tick <= world.tick]_vars

\* After a firing with a successful turn the store was emptied, and a
\* later firing has found no current race and stopped the driver.
C31_Witness ==
    /\ world.base > 0
    /\ ~HasCurrentRace(world)
    /\ world.races[1].turnCount >= 1
    /\ ~IsFinished(world.races[1])
    /\ world.tick = 0
    /\ world.timers = {}
    /\ world.nextId > 1
    /\ ~world.isRunning

\* The indices after the current one whose race is not finished.
UnfinishedAhead(w) ==
    {i \in (w.currentRaceIndex + 1)..(Len(w.races) - 1) :
        ~IsFinished(w.races[i + 1])}

\* C32: an execute() call made with the run-flag false on a finished
\* current race publishes nothing for a finished race and schedules no
\* timer; it leaves the index on the first unfinished race after the
\* current one, started, with the tick 0 and the call suspended at the
\* publication of that race's events, or, when no unfinished race
\* follows, it returns Ok with the index on the last race, the run-flag
\* false and no timer held.  The index never passes the last race.
C32_ExecuteOnFinished ==
    [][(/\ DriverExecute
        /\ ~world.isRunning
        /\ HasCurrentRace(world)
        /\ IsFinished(GetCurrentRace(world)))
       => /\ world'.timers \subseteq world.timers
          /\ world'.intervalId = NoTimer
          /\ ~world'.isRunning
          /\ \A i \in 1..Len(world.races) :
                IsFinished(world.races[i])
                    => world'.published[i] = world.published[i]
          /\ IF UnfinishedAhead(world) # {}
             THEN LET k == CHOOSE i \in UnfinishedAhead(world) :
                              \A j \in UnfinishedAhead(world) : i <= j
                  IN  /\ world'.currentRaceIndex = k
                      /\ world'.tick = 0
                      /\ world'.races[k + 1].isStarted
                      /\ world'.returns = world.returns
                      /\ Len(world'.tasks) = Len(world.tasks) + 1
                      /\ world'.tasks[Len(world'.tasks)].kind = "execute"
                      /\ world'.tasks[Len(world'.tasks)].race = k
             ELSE /\ world'.currentRaceIndex = Len(world.races) - 1
                  /\ world'.returns = world.returns + 1
                  /\ world'.lastExecute.ok
                  /\ world'.tasks = world.tasks]_vars

\* An execute() on a program whose first two races were finished has
\* passed both, started the third and, after the publication, scheduled
\* its timer.
C32_Witness ==
    /\ Len(world.races) >= 3
    /\ IsFinished(world.races[1]) /\ world.published[1] = <<>>
    /\ IsFinished(world.races[2]) /\ world.published[2] = <<>>
    /\ world.currentRaceIndex = 2
    /\ world.races[3].isStarted
    /\ world.tick = 0
    /\ world.executes = 1
    /\ world.returns = 1
    /\ world.lastExecute.ok
    /\ world.isRunning
    /\ world.intervalId # NoTimer

\* C33: every race of the program at an index below the current index is
\* finished, and the index moves only by one step up from a finished race.
C33_NoRaceSkipped ==
    /\ [](\A i \in 1..Len(world.races) :
             i - 1 < world.currentRaceIndex => IsFinished(world.races[i]))
    /\ [][world'.currentRaceIndex # world.currentRaceIndex
             => /\ world'.currentRaceIndex = world.currentRaceIndex + 1
                /\ IsFinished(GetCurrentRace(world))]_vars

\* C34: from a pause until the next execute() call the run-flag is false,
\* the driver holds no timer, the index is the one at the pause and the
\* current race has had no further turn.
C34_StaysPaused ==
    world.cycle.phase = "paused" =>
        /\ ~world.isRunning
        /\ world.intervalId = NoTimer
        /\ world.timers = {}
        /\ world.currentRaceIndex = world.cycle.index
        /\ HasCurrentRace(world) =>
               GetCurrentRace(world).turnCount = world.cycle.turnCount

\* C35: while a generated program is in the store and execute() has not
\* been called on it, the store's index is 0, the tick 0, the run-flag
\* false and no race of the new program has been started or turned; a
\* generateProgram.execute() with invalid input changes nothing.
C35_IdleAfterGenerate ==
    /\ [](world.base > 0 =>
             /\ world.currentRaceIndex - world.base = 0
             /\ world.tick = 0
             /\ ~world.isRunning
             /\ \A i \in (world.base + 1)..Len(world.races) :
                   /\ ~world.races[i].isStarted
                   /\ world.races[i].turnCount = 0)
    /\ [][\A input \in GenerateInputs :
             (~GenerateValidation(input).ok /\ world' = Generate(world, input))
                 => world' = world]_vars

\* C36: the started program eventually reaches, and then stays in, a state
\* where every race is finished, the run-flag is false, no timer is
\* scheduled and the index is that of the last race.
C36_ProgramCompletes ==
    <>[](/\ \A i \in 1..Len(world.races) : IsFinished(world.races[i])
         /\ ~world.isRunning
         /\ world.intervalId = NoTimer
         /\ world.timers = {}
         /\ world.currentRaceIndex = Len(world.races) - 1)

\* The largest condition in the lineup of rc.
LargestCondition(rc) ==
    CHOOSE c \in Conditions :
        /\ \E i \in DOMAIN rc.horses : rc.horses[i].condition = c
        /\ \A i \in DOMAIN rc.horses : rc.horses[i].condition <= c

\* C37: a started, unfinished race accepts turn(); every successful turn()
\* moves each unfinished horse forward by at least 1; the race is finished
\* once raceLength turns have succeeded, and is not finished before
\* ceil(raceLength / largest condition) turns have succeeded.
C37_RaceFinishes ==
    /\ []( /\ (race.isStarted /\ ~IsFinished(race))
                => TurnPrecondition(race) = "none"
           /\ okTurns >= RaceLength(race) => IsFinished(race)
           /\ IsFinished(race)
                => okTurns * LargestCondition(race) >= RaceLength(race) )
    /\ [][okTurns' = okTurns + 1 =>
             \A i \in DOMAIN race.horses :
                 ~race.horses[i].isFinished =>
                     race.horses[i].position' >= race.horses[i].position + 1
         ]_vars

\* The slowest possible race: every horse drew the movement 1 in every
\* turn, and the race finished in the turn that made the count raceLength.
C37_Witness ==
    /\ IsFinished(race)
    /\ okTurns = RaceLength(race)
    /\ RaceLength(race) = MaxLen
    /\ LargestCondition(race) > 1
    /\ lastCall.op = "turn"
    /\ lastCall.ok

\* C38: whenever no execute() or executeTurn() is suspended, the store's
\* run-flag is true exactly when the driver holds a timer handle.
C38_FlagMatchesHandle ==
    world.tasks = <<>> => (world.isRunning <=> world.intervalId # NoTimer)

\* The driver was started, took a turn of a race that is still unfinished,
\* and was stopped: no call is suspended, the run-flag is false and the
\* driver holds no handle.
C38_Witness ==
    /\ world.tasks = <<>>
    /\ ~world.isRunning
    /\ world.intervalId = NoTimer
    /\ world.executes >= 1
    /\ HasCurrentRace(world)
    /\ GetCurrentRace(world).turnCount >= 1
    /\ ~IsFinished(GetCurrentRace(world))

\* C39: the store's tick counter equals the turnCount of the race at the
\* current index whenever no execute() or executeTurn() is suspended.
C39_TickIsTurnCount ==
    (world.tasks = <<>> /\ HasCurrentRace(world))
        => world.tick = GetCurrentRace(world).turnCount

\* The first race was run to its end, the second took one turn and was
\* then paused: the tick counts the second race's one turn.
C39_Witness ==
    /\ world.tasks = <<>>
    /\ world.currentRaceIndex = 1
    /\ IsFinished(world.races[1])
    /\ world.races[1].turnCount >= 2
    /\ GetCurrentRace(world).turnCount = 1
    /\ world.tick = 1
    /\ ~world.isRunning
    /\ world.intervalId = NoTimer

\* The handlers publish() finds for a type, and through subscribeAll.
TypeHandlers(b, eventType) ==
    IF b.handlers[eventType] = NoSet THEN {}
    ELSE {h \in Handlers : SetHas(b.sets[b.handlers[eventType]], h)}
SubscribeAllHandlers(b) == {h \in Handlers : SetHas(b.allHandlers, h)}

\* The registration a closure was handed out for is still in place.
ClosureLive(b, closure) ==
    IF closure.eventType = AllEvents
    THEN closure.handler \in SubscribeAllHandlers(b)
    ELSE /\ b.handlers[closure.eventType] = closure.set
         /\ closure.handler \in TypeHandlers(b, closure.eventType)

\* C40: a call of an unsubscribe closure returned by subscribe(type, h)
\* leaves every registration other than h's for that type in place, and
\* changes no registration at all when h's registration is gone already
\* (the closure was called before, or clear() was called since).
C40_UnsubscribeFrame ==
    [][\A closure \in bus.closures :
          (closure.eventType # AllEvents
               /\ bus' = BusUnsubscribe(bus, closure)) =>
              /\ \A eventType \in BusEventTypes :
                    /\ TypeHandlers(bus', eventType)
                           \ (IF eventType = closure.eventType
                              THEN {closure.handler} ELSE {})
                         = TypeHandlers(bus, eventType)
                           \ (IF eventType = closure.eventType
                              THEN {closure.handler} ELSE {})
                    /\ ~ClosureLive(bus, closure) =>
                          /\ TypeHandlers(bus', eventType)
                               = TypeHandlers(bus, eventType)
                          /\ BusHasSubscribers(bus', eventType)
                               <=> BusHasSubscribers(bus, eventType)
              /\ SubscribeAllHandlers(bus') = SubscribeAllHandlers(bus)
      ]_vars
====
